---- MODULE Spec2Model ----
(***************************************************************************)
(* MuseAid coordination server: the canonical Sequence, the server-side    *)
(* SequenceEditor, the WebSocket subscriber registry and the route         *)
(* handlers (POST /gestures, POST /speech, PUT /sequence, WS /ws), as a    *)
(* state machine.  Every `await` of a handler is a point where the         *)
(* asyncio event loop may run another handler: a handler's code between    *)
(* two awaits is one action.                                               *)
(*                                                                         *)
(* Units: durations and beats are counted in eighths of a beat, so the     *)
(* source's duration 1.0 (a quarter note) is 8.  The editor cursor is      *)
(* 0-based as in the source; TLA+ sequences are 1-based, so the note at    *)
(* the cursor is notes[cursor + 1].  A Sequence is modelled by its notes   *)
(* list: no handler or editor command reads or writes name, bpm, time      *)
(* signature or key.                                                       *)
(***************************************************************************)
EXTENDS Integers, Sequences, FiniteSets, TLC

\* ---------------------------------------------------------------- bounds

\* Length of a run, counted in the events that make the state grow: the
\* WebSocket connections opened plus the broadcasts started (one per accepted
\* mutation or toggle_playback).  Requests the server rejects and the steps
\* of handlers in flight are not counted.
MaxEvents == 3

Sockets == 1..MaxEvents
\* Request handlers that may be in flight at the same time.
Handlers == {1, 2}

\* ------------------------------------------------------------ data model

PITCH_ORDER ==
    << "C4", "C#4", "D4", "D#4", "E4", "F4", "F#4", "G4", "G#4", "A4", "A#4", "B4",
       "C5", "C#5", "D5", "D#5", "E5", "F5", "F#5", "G5", "G#5", "A5", "A#5", "B5" >>

Note(pitch, duration, beat, note_type, instrument) ==
    [pitch |-> pitch, duration |-> duration, beat |-> beat,
     note_type |-> note_type, instrument |-> instrument]

is_rest(note) == note.pitch = "REST"

\* Note.pitch_index, 0-based as in the source; -1 for a rest.
pitch_index(note) ==
    IF is_rest(note) THEN -1
    ELSE (CHOOSE i \in 1..Len(PITCH_ORDER) : PITCH_ORDER[i] = note.pitch) - 1

\* list.pop(i) / list.insert(i, x) with a 0-based index i.
ListPop(list, i) ==
    [k \in 1..(Len(list) - 1) |-> IF k <= i THEN list[k] ELSE list[k + 1]]

ListInsert(list, i, x) ==
    [k \in 1..(Len(list) + 1) |->
        IF k <= i THEN list[k] ELSE IF k = i + 1 THEN x ELSE list[k - 1]]

Max(a, b) == IF a >= b THEN a ELSE b
Min(a, b) == IF a <= b THEN a ELSE b
Range(s) == {s[k] : k \in 1..Len(s)}

\* --------------------------------------------------- server SequenceEditor
\* Every command maps (notes, cursor) to the (notes, cursor) it leaves behind.

Ed(notes, cur) == [notes |-> notes, cursor |-> cur]

\* The cursor property setter: clamps, 0 on an empty sequence.
set_cursor(notes, value) ==
    IF Len(notes) = 0 THEN 0 ELSE Max(0, Min(value, Len(notes) - 1))

has_current_note(notes, cur) == Len(notes) > 0 /\ 0 <= cur /\ cur < Len(notes)

move_left(notes, cur) == Ed(notes, set_cursor(notes, cur - 1))

move_right(notes, cur) == Ed(notes, set_cursor(notes, cur + 1))

pitch_up(notes, cur) ==
    IF ~has_current_note(notes, cur) \/ is_rest(notes[cur + 1]) THEN Ed(notes, cur)
    ELSE LET idx == pitch_index(notes[cur + 1]) IN
         IF idx < Len(PITCH_ORDER) - 1
         THEN Ed([notes EXCEPT ![cur + 1].pitch = PITCH_ORDER[idx + 2]], cur)
         ELSE Ed(notes, cur)

pitch_down(notes, cur) ==
    IF ~has_current_note(notes, cur) \/ is_rest(notes[cur + 1]) THEN Ed(notes, cur)
    ELSE LET idx == pitch_index(notes[cur + 1]) IN
         IF idx > 0
         THEN Ed([notes EXCEPT ![cur + 1].pitch = PITCH_ORDER[idx]], cur)
         ELSE Ed(notes, cur)

\* Fault: delete_note without the clamp of the cursor.
delete_note_unclamped(notes, cur) ==
    IF Len(notes) = 0 THEN Ed(notes, cur) ELSE Ed(ListPop(notes, cur), cur)

delete_note(notes, cur) ==
    IF Len(notes) = 0 THEN Ed(notes, cur)
    ELSE LET rest == ListPop(notes, cur) IN
         IF cur >= Len(rest) /\ Len(rest) > 0
         THEN Ed(rest, Len(rest) - 1)
         ELSE Ed(rest, cur)

add_note(notes, cur) ==
    LET new_beat   == IF Len(notes) > 0
                      THEN notes[cur + 1].beat + notes[cur + 1].duration
                      ELSE 0
        new_note   == Note("C4", 8, new_beat, "quarter", 0)
        insert_idx == IF Len(notes) > 0 THEN cur + 1 ELSE 0
    IN  Ed(ListInsert(notes, insert_idx, new_note), insert_idx)

toggle_instrument(notes, cur) ==
    IF ~has_current_note(notes, cur) THEN Ed(notes, cur)
    ELSE Ed([notes EXCEPT ![cur + 1].instrument =
                 IF notes[cur + 1].instrument = 0 THEN 1 ELSE 0], cur)

\* The keys of execute's dispatch table.
EditorCommands ==
    {"move_left", "move_right", "pitch_up", "pitch_down",
     "delete_note", "add_note", "toggle_instrument"}

\* Fault: a command execute does not know falls through to delete_note.
execute_default_delete(command, notes, cur) ==
    LET r == CASE command = "move_left"         -> move_left(notes, cur)
               [] command = "move_right"        -> move_right(notes, cur)
               [] command = "pitch_up"          -> pitch_up(notes, cur)
               [] command = "pitch_down"        -> pitch_down(notes, cur)
               [] command = "add_note"          -> add_note(notes, cur)
               [] command = "toggle_instrument" -> toggle_instrument(notes, cur)
               [] OTHER                         -> delete_note(notes, cur)
    IN  [known |-> command \in EditorCommands, notes |-> r.notes, cursor |-> r.cursor]

\* SequenceEditor.execute: the command's effect and whether it was known.
execute(command, notes, cur) ==
    LET r == CASE command = "move_left"         -> move_left(notes, cur)
               [] command = "move_right"        -> move_right(notes, cur)
               [] command = "pitch_up"          -> pitch_up(notes, cur)
               [] command = "pitch_down"        -> pitch_down(notes, cur)
               [] command = "delete_note"       -> delete_note(notes, cur)
               [] command = "add_note"          -> add_note(notes, cur)
               [] command = "toggle_instrument" -> toggle_instrument(notes, cur)
               [] OTHER                         -> Ed(notes, cur)
    IN  [known |-> command \in EditorCommands, notes |-> r.notes, cursor |-> r.cursor]

\* ------------------------------------------------------------ gesture map

GestureLabels ==
    {"PITCH_UP", "PITCH_DOWN", "TOGGLE_PLAYBACK", "SCROLL_FORWARD", "SCROLL_BACKWARD",
     "SWITCH_STAFF", "ADD_NOTE", "DELETE_NOTE", "TOGGLE_INSTRUMENT",
     "SPLIT_NOTE", "MERGE_NOTE", "MAKE_REST"}

GESTURE_TO_COMMAND(g) ==
    CASE g = "PITCH_UP"          -> "pitch_up"
      [] g = "PITCH_DOWN"        -> "pitch_down"
      [] g = "TOGGLE_PLAYBACK"   -> "toggle_playback"
      [] g = "SCROLL_FORWARD"    -> "move_right"
      [] g = "SCROLL_BACKWARD"   -> "move_left"
      [] g = "SWITCH_STAFF"      -> "switch_edit_staff"
      [] g = "ADD_NOTE"          -> "add_note"
      [] g = "DELETE_NOTE"       -> "delete_note"
      [] g = "TOGGLE_INSTRUMENT" -> "switch_edit_staff"
      [] g = "SPLIT_NOTE"        -> "split_note"
      [] g = "MERGE_NOTE"        -> "merge_note"
      [] g = "MAKE_REST"         -> "make_rest"

KNOWN_COMMANDS ==
    {"move_left", "move_right", "pitch_up", "pitch_down", "delete_note", "add_note",
     "toggle_instrument", "split_note", "merge_note", "make_rest",
     "toggle_playback", "switch_edit_staff"}

\* str.lower() on the labels the model sends (every other label the model
\* sends is already lowercase).
Lower(g) ==
    CASE g = "PITCH_UP"          -> "pitch_up"
      [] g = "PITCH_DOWN"        -> "pitch_down"
      [] g = "TOGGLE_PLAYBACK"   -> "toggle_playback"
      [] g = "SCROLL_FORWARD"    -> "scroll_forward"
      [] g = "SCROLL_BACKWARD"   -> "scroll_backward"
      [] g = "SWITCH_STAFF"      -> "switch_staff"
      [] g = "ADD_NOTE"          -> "add_note"
      [] g = "DELETE_NOTE"       -> "delete_note"
      [] g = "TOGGLE_INSTRUMENT" -> "toggle_instrument"
      [] g = "SPLIT_NOTE"        -> "split_note"
      [] g = "MERGE_NOTE"        -> "merge_note"
      [] g = "MAKE_REST"         -> "make_rest"
      [] g = "MOVE_LEFT"         -> "move_left"
      [] g = "MOVE_RIGHT"        -> "move_right"
      [] g = "SWITCH_EDIT_STAFF" -> "switch_edit_staff"
      [] g = "Pitch_Up"          -> "pitch_up"
      [] g = "WAVE"              -> "wave"
      [] OTHER                   -> g

\* No command: map_gesture's None.
NoCommand == "<none>"

\* Fault: the label is lowercased before the table is consulted.
map_gesture_lower_first(g) ==
    IF g = "" THEN NoCommand
    ELSE IF Lower(g) \in KNOWN_COMMANDS THEN Lower(g)
    ELSE IF g \in GestureLabels THEN GESTURE_TO_COMMAND(g)
    ELSE NoCommand

map_gesture(g) ==
    IF g = "" THEN NoCommand
    ELSE IF g \in GestureLabels THEN GESTURE_TO_COMMAND(g)   \* the explicit map first
    ELSE IF g \in KNOWN_COMMANDS THEN g
    ELSE IF Lower(g) \in KNOWN_COMMANDS THEN Lower(g)
    ELSE NoCommand


\* ------------------------------------------------------------------ state

VARIABLES
    objs,     \* the Sequence objects: object id -> its notes list
    seqId,    \* app_state.sequence: the id of the canonical Sequence object
    cursor,   \* app_state.editor._cursor
    clients,  \* app_state._clients: the registered sockets, in list order
    sock,     \* per connection: where its websocket_endpoint is, whether the
              \* peer still holds the connection open, the initial payload
    inbox,    \* per connection: the frames the client has received, in order
    req,      \* per request handler: its locals and where it is suspended
    nbcast,   \* number of broadcasts started: stamps frames in apply order
    returned, \* the handler return (HTTP response) of the last step, if any
    ed,       \* the two SequenceEditors run side by side on one gesture stream
    det,      \* the hand-gesture app: its MotionBuffer and GestureDetector
    mw,       \* the Composition App's MainWindow: its sequence and cursors
    life,     \* the Composition App's ServerClient thread and its shutdown
    link,     \* a Composition App connected to the server, and what is in
              \* flight between them
    post      \* the hand-gesture app's POST worker threads and the server

vars == <<objs, seqId, cursor, clients, sock, inbox, req, nbcast, returned, ed, det, mw,
         life, link, post>>

\* The state of the coordination server, and the state outside it.
serverVars == <<objs, seqId, cursor, clients, sock, inbox, req, nbcast, returned>>
outsideServer == <<ed, det, mw, life, link, post>>

\* The editors and the detector when they are not part of the run.
EdOff == [on |-> FALSE]
DetOff == [on |-> FALSE]
MwOff == [on |-> FALSE]
LifeOff == [on |-> FALSE]
LinkOff == [on |-> FALSE]
PostOff == [on |-> FALSE]

\* A replace_sequence always comes with a broadcast, so the stamp of that
\* broadcast names the new Sequence object; object 0 is the boot Sequence.
ObjIds == 0..MaxEvents

\* ----------------------------------------------------------------- frames

NoFrame == [type |-> "none"]

SequenceUpdate(notes) == [type |-> "sequence_update", sequence |-> notes]

CommandFrame(command, cur) ==
    [type |-> "command", command |-> command, cursor |-> cur]

\* Fault: the toggle_playback frame built like an editor command frame.
ToggleFrameWithCursor == [type |-> "command", command |-> "toggle_playback", cursor |-> 0]

ToggleFrame == [type |-> "command", command |-> "toggle_playback"]

\* --------------------------------------------------------------- registry

register(cl, ws) == Append(cl, ws)

\* list.remove(ws) when ws is in the list.
unregister(cl, ws) ==
    IF ws \in Range(cl)
    THEN LET i == CHOOSE k \in 1..Len(cl) :
                      cl[k] = ws /\ \A j \in 1..(k - 1) : cl[j] # ws
         IN  ListPop(cl, i - 1)
    ELSE cl

RECURSIVE unregister_stale(_, _)
unregister_stale(cl, stale) ==
    IF stale = <<>> THEN cl
    ELSE unregister_stale(unregister(cl, Head(stale)), Tail(stale))

\* Fault: a send to a closed connection goes unnoticed.
send_never_fails(ws) == FALSE

\* ws.send_text raises when the peer has closed the connection.
send_fails(ws) == ~sock[ws].alive

\* ------------------------------------------------------------ POST /speech

\* Optional[int]: <<>> is None, <<i>> is the integer i.
None == <<>>
Some(i) == <<i>>

Strip(text) == IF text = "  " THEN "" ELSE text

validate_selection_range(length, start, end) ==
    IF start < 0 \/ end < 0
    THEN [ok |-> FALSE, reason |-> "selection indices must be non-negative"]
    ELSE IF start > end
    THEN [ok |-> FALSE, reason |-> "selection_start_index must be <= selection_end_index"]
    ELSE IF length = 0
    THEN [ok |-> FALSE, reason |-> "cannot apply selection-scoped edit to empty sequence"]
    ELSE IF end >= length
    THEN [ok |-> FALSE, reason |-> "selection_end_index out of bounds"]
    ELSE [ok |-> TRUE, reason |-> "None"]

\* before and after are the notes lists; indices are 0-based as in the source.
strict_out_of_range_unchanged(before, after, selection_start, selection_end) ==
    IF Len(before) # Len(after)
    THEN [ok |-> FALSE,
          reason |-> "strict selection mode requires unchanged total note count"]
    ELSE LET bad == {i \in 0..(Len(before) - 1) :
                        /\ ~(selection_start <= i /\ i <= selection_end)
                        /\ before[i + 1] # after[i + 1]}
         IN  IF bad # {}
             THEN [ok |-> FALSE, reason |-> "out-of-range mutation detected at note index",
                   index |-> CHOOSE i \in bad : \A j \in bad : i <= j]
             ELSE [ok |-> TRUE, reason |-> "None"]

\* What edit_sequence may return for the JSON it was sent: the LLM is an
\* external collaborator, so every answer of a bounded family is possible:
\* the sequence unchanged, one note re-pitched (at any index), the last note
\* dropped, a note appended.
LLMOutputs(snap) ==
    {snap}
    \cup {[snap EXCEPT ![i].pitch = IF @ = "D4" THEN "E4" ELSE "D4"] : i \in 1..Len(snap)}
    \cup (IF Len(snap) > 0 THEN {SubSeq(snap, 1, Len(snap) - 1)} ELSE {})
    \cup {Append(snap, Note("G4", 8, 0, "quarter", 1))}

\* ------------------------------------------------------------ PUT /sequence

\* Bodies whose "sequence" Sequence.from_dict accepts, by their notes.
PutBodies ==
    { <<>>,
      << Note("C4", 8, 0, "quarter", 0) >>,
      << Note("A#5", 8, 0, "quarter", 0), Note("REST", 4, 8, "eighth", 1) >> }

\* ---------------------------------------------------------------- handlers

NoResp == [status |-> "none"]

IdleReq ==
    [pc |-> "idle", kind |-> "none", command |-> NoCommand,
     sel |-> <<>>, ref |-> 0, snap |-> <<>>, count |-> 0,
     frame |-> NoFrame, fid |-> 0, idx |-> 0, target |-> 0, stale |-> <<>>,
     start |-> {}, attempted |-> {}]

\* No handler returned in the last step.
NoReturn ==
    [h |-> 0, kind |-> "none", command |-> NoCommand, frame |-> NoFrame, fid |-> 0,
     resp |-> NoResp]

\* The handler's return value once its broadcast is over.
response(r, cur) ==
    IF r.kind = "gesture"
    THEN IF r.command = "toggle_playback"
         THEN [status |-> "ok", command |-> "toggle_playback"]
         ELSE [status |-> "ok", command |-> r.command, cursor |-> cur]
    ELSE IF r.kind = "speech" /\ r.sel # <<>>
    THEN [status |-> "ok", note_count |-> r.count,
          selection_start_index |-> r.sel[1], selection_end_index |-> r.sel[2]]
    ELSE [status |-> "ok", note_count |-> r.count]

\* Handler h returns resp: what it was, the frame it broadcast (stamp 0 and
\* NoFrame when it broadcast nothing) and its response.
returns(h, r, resp) ==
    [h |-> h, kind |-> r.kind, command |-> r.command, frame |-> r.frame, fid |-> r.fid,
     resp |-> resp]

\* Reference counting: a Sequence object lives while it is canonical or a
\* /speech handler waiting for the LLM holds it as current_sequence.
collect(o, canon, rq) ==
    [i \in ObjIds |->
        IF i = canon \/ \E k \in Handlers : rq[k].pc = "llm" /\ rq[k].ref = i
        THEN o[i] ELSE <<>>]

\* AppState.broadcast up to its first suspension: the payload is serialised,
\* the iterator over the live _clients list yields its first socket and the
\* handler is suspended in ws.send_text; with no client the broadcast is over
\* at once and the handler returns.
begin_broadcast(r, frame, fid, cl) ==
    LET b == [r EXCEPT !.frame = frame, !.fid = fid] IN
    IF Len(cl) = 0
    THEN IdleReq
    ELSE [b EXCEPT !.pc = "send", !.idx = 1, !.target = cl[1],
                   !.start = Range(cl), !.attempted = {cl[1]}]

\* The handler's return in the step that begins its broadcast, if the
\* broadcast is over at once.
begin_returns(h, r, frame, fid, cl, cur) ==
    LET b == [r EXCEPT !.frame = frame, !.fid = fid] IN
    IF Len(cl) = 0 THEN returns(h, b, response(b, cur)) ELSE NoReturn



\* ------------------------------------------------------------------- Init

\* AppState.__init__: the empty "Untitled" sequence, an editor on it, no client.
AppStateInit ==
    /\ objs = [i \in ObjIds |-> <<>>]
    /\ seqId = 0
    /\ cursor = 0
    /\ clients = <<>>
    /\ sock = [s \in Sockets |-> [pc |-> "new", alive |-> FALSE, payload |-> <<>>]]
    /\ inbox = [s \in Sockets |-> <<>>]
    /\ req = [h \in Handlers |-> IdleReq]
    /\ nbcast = 0
    /\ returned = NoReturn

\* The server on its own.
Init ==
    /\ AppStateInit
    /\ ed = EdOff
    /\ det = DetOff
    /\ mw = MwOff
    /\ life = LifeOff
    /\ link = LinkOff
    /\ post = PostOff

\* The event loop runs a handler once the response of the handler that
\* returned last has been handed to the HTTP layer.
ready == returned = NoReturn

\* Whether the run may still open a connection or start a broadcast.
budget ==
    nbcast + Cardinality({s \in Sockets : sock[s].pc # "new"}) < MaxEvents

\* A request starts in the first free handler slot.
free(h) ==
    /\ ready
    /\ req[h].pc = "idle"
    /\ \A k \in Handlers : k < h => req[k].pc # "idle"

\* ------------------------------------------------------- POST /gestures

\* The labels of the table, an unknown label, and a command name sent as a
\* label (the only way to reach the editor's toggle_instrument).
GestureInputs == GestureLabels \cup {"WAVE", "toggle_instrument"}

\* receive_gesture up to its first suspension (or its return).
ReceiveGesture(h, g) ==
    /\ UNCHANGED outsideServer
    /\ free(h)
    /\ LET command == map_gesture(g)
           base    == [IdleReq EXCEPT !.kind = "gesture", !.command = command]
       IN
       IF command = NoCommand
       THEN /\ returned' = returns(h, base, [status |-> "ignored",
                                             reason |-> "unknown gesture: " \o g])
            /\ UNCHANGED <<objs, seqId, cursor, clients, sock, inbox, req, nbcast>>
       ELSE IF command = "toggle_playback"
       THEN /\ budget
            /\ nbcast' = nbcast + 1
            /\ req' = [req EXCEPT ![h] =
                        begin_broadcast(base, ToggleFrame, nbcast + 1, clients)]
            /\ returned' = begin_returns(h, base, ToggleFrame, nbcast + 1, clients, cursor)
            /\ UNCHANGED <<objs, seqId, cursor, clients, sock, inbox>>
       ELSE LET r == execute(command, objs[seqId], cursor) IN
            /\ objs' = [objs EXCEPT ![seqId] = r.notes]
            /\ cursor' = r.cursor
            /\ IF ~r.known
               THEN /\ returned' = returns(h, base, [status |-> "ignored",
                                                     reason |-> "unknown command: " \o command])
                    /\ UNCHANGED <<req, nbcast>>
               ELSE /\ budget
                    /\ nbcast' = nbcast + 1
                    /\ req' = [req EXCEPT ![h] =
                                begin_broadcast(base, CommandFrame(command, r.cursor),
                                                nbcast + 1, clients)]
                    /\ returned' = begin_returns(h, base, CommandFrame(command, r.cursor),
                                                 nbcast + 1, clients, r.cursor)
            /\ UNCHANGED <<seqId, clients, sock, inbox>>

\* ------------------------------------------------------- AppState.broadcast

\* The socket the list iterator yields next, given the sockets it has yielded.
next_client(cl, idx) == cl[idx + 1]

\* The pending ws.send_text completes (the frame reaches the client, or the
\* send raises and the socket is noted as stale); then the loop asks the list
\* iterator for the next socket of the live _clients list and suspends in the
\* next send, or the loop is over: the stale sockets are unregistered and the
\* handler returns.
BroadcastSend(h) ==
    /\ UNCHANGED outsideServer
    /\ ready
    /\ req[h].pc = "send"
    /\ LET r      == req[h]
           ws     == r.target
           failed == send_fails(ws)
           stale1 == IF failed THEN Append(r.stale, ws) ELSE r.stale
       IN
       /\ inbox' = IF failed THEN inbox
                   ELSE [inbox EXCEPT ![ws] = Append(@, [fid |-> r.fid, msg |-> r.frame])]
       /\ IF r.idx < Len(clients)
          THEN /\ req' = [req EXCEPT ![h] =
                           [r EXCEPT !.idx = r.idx + 1,
                                     !.target = next_client(clients, r.idx),
                                     !.stale = stale1,
                                     !.attempted = @ \cup {next_client(clients, r.idx)}]]
               /\ returned' = NoReturn
               /\ UNCHANGED clients
          ELSE /\ clients' = unregister_stale(clients, stale1)
               /\ req' = [req EXCEPT ![h] = IdleReq]
               /\ returned' = returns(h, r, response(r, cursor))
    /\ UNCHANGED <<objs, seqId, cursor, sock, nbcast>>

\* The response of the handler that returned goes out to its caller.
Respond ==
    /\ UNCHANGED outsideServer
    /\ ~ready
    /\ returned' = NoReturn
    /\ UNCHANGED <<objs, seqId, cursor, clients, sock, inbox, req, nbcast>>

\* --------------------------------------------------------- PUT /sequence

\* A body Sequence.from_dict raises on (a note with a missing or unknown key).
PutMalformed(h) ==
    /\ UNCHANGED outsideServer
    /\ free(h)
    /\ returned' = returns(h, [IdleReq EXCEPT !.kind = "put"],
                           [status |-> "error", reason |-> "invalid sequence data"])
    /\ UNCHANGED <<objs, seqId, cursor, clients, sock, inbox, req, nbcast>>

\* Fault: the editor built by replace_sequence takes over the old cursor.
replace_cursor_kept(cur) == cur

\* AppState.replace_sequence builds a new editor: its cursor.
replace_cursor(cur) == 0

PutSequence(h, body) ==
    /\ UNCHANGED outsideServer
    /\ free(h)
    /\ budget
    /\ LET new  == nbcast + 1
           base == [IdleReq EXCEPT !.kind = "put", !.count = Len(body)]
           rq   == [req EXCEPT ![h] =
                      begin_broadcast(base, SequenceUpdate(body), new, clients)]
       IN
       /\ req' = rq
       /\ returned' = begin_returns(h, base, SequenceUpdate(body), new, clients,
                                    replace_cursor(cursor))
       /\ objs' = collect([objs EXCEPT ![new] = body], new, rq)
       /\ seqId' = new
       /\ cursor' = replace_cursor(cursor)
       /\ nbcast' = new
    /\ UNCHANGED <<clients, sock, inbox>>

\* ---------------------------------------------------------- POST /speech

SpeechPayload(text, selection_start_index, selection_end_index) ==
    [text |-> text, selection_start_index |-> selection_start_index,
     selection_end_index |-> selection_end_index]

SpeechPayloads ==
    { SpeechPayload("  ", None, None),
      SpeechPayload("raise it", None, None),
      SpeechPayload("raise it", Some(0), None),
      SpeechPayload("raise it", Some(-1), Some(0)),
      SpeechPayload("raise it", Some(1), Some(0)),
      SpeechPayload("raise it", Some(0), Some(0)),
      SpeechPayload("raise it", Some(1), Some(1)),
      SpeechPayload("raise it", Some(0), Some(1)) }

\* receive_speech up to `await edit_sequence(...)` (or its early return).
ReceiveSpeech(h, payload) ==
    /\ UNCHANGED outsideServer
    /\ free(h)
    /\ LET text            == payload.text
           selection_start == payload.selection_start_index
           selection_end   == payload.selection_end_index
           base   == [IdleReq EXCEPT !.kind = "speech"]
           scoped == selection_start # None \/ selection_end # None
           early(resp) == returned' = returns(h, base, resp) /\ UNCHANGED req
       IN
       IF Strip(text) = ""
       THEN early([status |-> "ignored", reason |-> "empty instruction"])
       ELSE IF scoped /\ (selection_start = None \/ selection_end = None)
       THEN early([status |-> "error",
                   reason |-> "selection_start_index and selection_end_index must both be provided"])
       ELSE IF scoped /\ ~validate_selection_range(Len(objs[seqId]),
                              selection_start[1], selection_end[1]).ok
       THEN early([status |-> "error",
                   reason |-> validate_selection_range(Len(objs[seqId]),
                                  selection_start[1], selection_end[1]).reason])
       ELSE /\ req' = [req EXCEPT ![h] =
                     [base EXCEPT !.pc = "llm", !.ref = seqId, !.snap = objs[seqId],
                                  !.sel = IF scoped
                                          THEN <<selection_start[1], selection_end[1]>>
                                          ELSE <<>>]]
            /\ returned' = NoReturn
    /\ UNCHANGED <<objs, seqId, cursor, clients, sock, inbox, nbcast>>

\* edit_sequence raises (no API key, empty answer, no JSON object, missing
\* keys) or Sequence.from_json raises.
SpeechLLMFails(h) ==
    /\ UNCHANGED outsideServer
    /\ ready
    /\ req[h].pc = "llm"
    /\ LET rq == [req EXCEPT ![h] = IdleReq]
       IN  /\ req' = rq
           /\ objs' = collect(objs, seqId, rq)
    /\ returned' = returns(h, req[h], [status |-> "error",
                                       reason |-> "failed to process instruction"])
    /\ UNCHANGED <<seqId, cursor, clients, sock, inbox, nbcast>>

\* edit_sequence returns `out`: the strict range check against the object
\* the handler took as current_sequence, then replace_sequence and the
\* broadcast up to its first suspension.
SpeechLLMReturns(h, out) ==
    /\ UNCHANGED outsideServer
    /\ ready
    /\ req[h].pc = "llm"
    /\ LET r      == req[h]
           strict == IF r.sel # <<>>
                     THEN strict_out_of_range_unchanged(objs[r.ref], out, r.sel[1], r.sel[2])
                     ELSE [ok |-> TRUE, reason |-> "None"]
       IN
       IF ~strict.ok
       THEN LET rq == [req EXCEPT ![h] = IdleReq]
            IN  /\ req' = rq
                /\ objs' = collect(objs, seqId, rq)
                /\ returned' = returns(h, r, [status |-> "error", reason |-> strict.reason,
                                              selection_start_index |-> r.sel[1],
                                              selection_end_index |-> r.sel[2]])
                /\ UNCHANGED <<seqId, cursor, nbcast>>
       ELSE /\ budget
            /\ LET new  == nbcast + 1
                   base == [IdleReq EXCEPT !.kind = "speech", !.sel = r.sel,
                                           !.count = Len(out)]
                   rq   == [req EXCEPT ![h] =
                              begin_broadcast(base, SequenceUpdate(out), new, clients)]
               IN
               /\ req' = rq
               /\ returned' = begin_returns(h, base, SequenceUpdate(out), new, clients,
                                            replace_cursor(cursor))
               /\ objs' = collect([objs EXCEPT ![new] = out], new, rq)
               /\ seqId' = new
               /\ cursor' = replace_cursor(cursor)
               /\ nbcast' = new
    /\ UNCHANGED <<clients, sock, inbox>>

\* ------------------------------------------------------------------ WS /ws

\* A client connects and `await ws.accept()` returns: the socket is
\* registered, the initial sequence_update is serialised from the canonical
\* sequence and websocket_endpoint is suspended in ws.send_text.  (Before
\* accept returns the handler has touched no shared state.)
WSAccept(s) ==
    /\ UNCHANGED outsideServer
    /\ ready
    /\ sock[s].pc = "new"
    /\ budget
    /\ \A t \in Sockets : t < s => sock[t].pc # "new"
    /\ clients' = register(clients, s)
    /\ sock' = [sock EXCEPT ![s] = [pc |-> "init", alive |-> TRUE, payload |-> objs[seqId]]]
    /\ returned' = NoReturn
    /\ UNCHANGED <<objs, seqId, cursor, inbox, req, nbcast>>

\* The initial send completes, and the handler waits in receive_text; or it
\* raises, and the handler unregisters the socket and returns.
WSInitialSend(s) ==
    /\ UNCHANGED outsideServer
    /\ ready
    /\ sock[s].pc = "init"
    /\ IF send_fails(s)
       THEN /\ clients' = unregister(clients, s)
            /\ sock' = [sock EXCEPT ![s].pc = "closed", ![s].payload = <<>>]
            /\ UNCHANGED inbox
       ELSE /\ inbox' = [inbox EXCEPT ![s] =
                           Append(@, [fid |-> 0, msg |-> SequenceUpdate(sock[s].payload)])]
            /\ sock' = [sock EXCEPT ![s].pc = "recv", ![s].payload = <<>>]
            /\ UNCHANGED clients
    /\ returned' = NoReturn
    /\ UNCHANGED <<objs, seqId, cursor, req, nbcast>>

\* The peer closes its end of the connection (and what it received is gone
\* with it).
ClientClose(s) ==
    /\ UNCHANGED outsideServer
    /\ ready
    /\ sock[s].pc \in {"init", "recv"}
    /\ sock[s].alive
    /\ sock' = [sock EXCEPT ![s].alive = FALSE]
    /\ inbox' = [inbox EXCEPT ![s] = <<>>]
    /\ returned' = NoReturn
    /\ UNCHANGED <<objs, seqId, cursor, clients, req, nbcast>>

\* receive_text raises WebSocketDisconnect: `finally` unregisters the socket.
WSDisconnect(s) ==
    /\ UNCHANGED outsideServer
    /\ ready
    /\ sock[s].pc = "recv"
    /\ ~sock[s].alive
    /\ clients' = unregister(clients, s)
    /\ sock' = [sock EXCEPT ![s].pc = "closed", ![s].payload = <<>>]
    /\ returned' = NoReturn
    /\ UNCHANGED <<objs, seqId, cursor, inbox, req, nbcast>>

\* ------------------------------------------------------------------- Next

Next ==
    \/ \E h \in Handlers, g \in GestureInputs : ReceiveGesture(h, g)
    \/ \E h \in Handlers : BroadcastSend(h)
    \/ Respond
    \/ \E h \in Handlers : PutMalformed(h)
    \/ \E h \in Handlers, body \in PutBodies : PutSequence(h, body)
    \/ \E h \in Handlers, payload \in SpeechPayloads : ReceiveSpeech(h, payload)
    \/ \E h \in Handlers : SpeechLLMFails(h)
    \/ \E h \in Handlers : \E out \in LLMOutputs(req[h].snap) : SpeechLLMReturns(h, out)
    \/ \E s \in Sockets : WSAccept(s)
    \/ \E s \in Sockets : WSInitialSend(s)
    \/ \E s \in Sockets : ClientClose(s)
    \/ \E s \in Sockets : WSDisconnect(s)

Spec == Init /\ [][Next]_vars

\* The event loop runs every coroutine that is ready: a response is handed
\* over, a suspended send completes or raises, a receive on a closed
\* connection raises.  Nothing makes a request arrive, a peer close its
\* connection or the model answer.
ServerFairness ==
    /\ WF_vars(Respond)
    /\ \A h \in Handlers : WF_vars(BroadcastSend(h))
    /\ \A s \in Sockets : WF_vars(WSInitialSend(s))
    /\ \A s \in Sockets : WF_vars(WSDisconnect(s))

LiveSpec == Spec /\ ServerFairness

\* ------------------------------------------ Composition App SequenceEditor
\* music_app/commands.py.  As for the server editor, a command maps
\* (notes, cursor) to the (notes, cursor) it leaves behind; app_signals gives
\* the Qt signals it emits, in order.

\* Durations of the canonical note types, in eighths of a beat.
note_type_for_duration(duration) ==
    CASE duration = 32 -> "whole"
      [] duration = 16 -> "half"
      [] duration = 8  -> "quarter"
      [] duration = 4  -> "eighth"
      [] duration = 2  -> "sixteenth"
      [] OTHER         -> "None"

app_move_left(notes, cur) == Ed(notes, set_cursor(notes, cur - 1))

app_move_right(notes, cur) == Ed(notes, set_cursor(notes, cur + 1))

\* The first index of `order` (a sequence of 0-based indices) whose note is
\* pitched and in PITCH_ORDER gives the seed; -1 when there is none.
RECURSIVE first_pitched(_, _)
first_pitched(notes, order) ==
    IF order = <<>> THEN -1
    ELSE LET n == notes[Head(order) + 1] IN
         IF ~is_rest(n) /\ n.pitch \in Range(PITCH_ORDER)
         THEN pitch_index(n)
         ELSE first_pitched(notes, Tail(order))

\* range(cursor - 1, -1, -1) and range(cursor + 1, len(notes)).
Before(cur) == [k \in 1..cur |-> cur - k]
After(notes, cur) == [k \in 1..(Len(notes) - cur - 1) |-> cur + k]

\* Fault: the seed search looks ahead first.
rest_seed_ahead_first(notes, cur) ==
    IF Len(notes) = 0 THEN 0
    ELSE IF first_pitched(notes, After(notes, cur)) >= 0
    THEN first_pitched(notes, After(notes, cur))
    ELSE IF first_pitched(notes, Before(cur)) >= 0
    THEN first_pitched(notes, Before(cur))
    ELSE 0

rest_seed_pitch_index(notes, cur) ==
    IF Len(notes) = 0 THEN 0
    ELSE IF first_pitched(notes, Before(cur)) >= 0
    THEN first_pitched(notes, Before(cur))
    ELSE IF first_pitched(notes, After(notes, cur)) >= 0
    THEN first_pitched(notes, After(notes, cur))
    ELSE 0

app_pitch_up(notes, cur) ==
    IF ~has_current_note(notes, cur) THEN Ed(notes, cur)
    ELSE LET note == notes[cur + 1] IN
         IF is_rest(note)
         THEN LET seed_idx == rest_seed_pitch_index(notes, cur) IN
              Ed([notes EXCEPT ![cur + 1].pitch =
                     PITCH_ORDER[Min(Len(PITCH_ORDER) - 1, seed_idx + 1) + 1]], cur)
         ELSE LET idx == pitch_index(note) IN
              IF idx < Len(PITCH_ORDER) - 1
              THEN Ed([notes EXCEPT ![cur + 1].pitch = PITCH_ORDER[idx + 2]], cur)
              ELSE Ed(notes, cur)

\* Fault: the lower clamp is off by one (C#4 is taken for the lowest pitch).
app_pitch_down_clamps_early(notes, cur) ==
    IF ~has_current_note(notes, cur) THEN Ed(notes, cur)
    ELSE LET note == notes[cur + 1] IN
         IF is_rest(note)
         THEN LET seed_idx == rest_seed_pitch_index(notes, cur) IN
              Ed([notes EXCEPT ![cur + 1].pitch =
                     PITCH_ORDER[Max(0, seed_idx - 1) + 1]], cur)
         ELSE LET idx == pitch_index(note) IN
              IF idx > 1
              THEN Ed([notes EXCEPT ![cur + 1].pitch = PITCH_ORDER[idx]], cur)
              ELSE Ed(notes, cur)

app_pitch_down(notes, cur) ==
    IF ~has_current_note(notes, cur) THEN Ed(notes, cur)
    ELSE LET note == notes[cur + 1] IN
         IF is_rest(note)
         THEN LET seed_idx == rest_seed_pitch_index(notes, cur) IN
              Ed([notes EXCEPT ![cur + 1].pitch =
                     PITCH_ORDER[Max(0, seed_idx - 1) + 1]], cur)
         ELSE LET idx == pitch_index(note) IN
              IF idx > 0
              THEN Ed([notes EXCEPT ![cur + 1].pitch = PITCH_ORDER[idx]], cur)
              ELSE Ed(notes, cur)

\* Fault: the last note is removed, wherever the cursor is.
app_delete_note_last(notes, cur) ==
    IF Len(notes) = 0 THEN Ed(notes, cur)
    ELSE Ed(SubSeq(notes, 1, Len(notes) - 1), Min(cur, Max(0, Len(notes) - 2)))

app_delete_note(notes, cur) ==
    IF Len(notes) = 0 THEN Ed(notes, cur)
    ELSE LET rest == ListPop(notes, cur) IN
         IF cur >= Len(rest) /\ Len(rest) > 0
         THEN Ed(rest, Len(rest) - 1)
         ELSE Ed(rest, cur)

\* Fault: the new note starts at the beat of the note at the cursor.
app_add_note_same_beat(notes, cur) ==
    LET new_beat   == IF Len(notes) > 0 THEN notes[cur + 1].beat ELSE 0
        insert_idx == IF Len(notes) > 0 THEN cur + 1 ELSE 0
    IN  Ed(ListInsert(notes, insert_idx, Note("C4", 8, new_beat, "quarter", 0)),
           insert_idx)

app_add_note(notes, cur) ==
    LET new_beat   == IF Len(notes) > 0
                      THEN notes[cur + 1].beat + notes[cur + 1].duration
                      ELSE 0
        insert_idx == IF Len(notes) > 0 THEN cur + 1 ELSE 0
    IN  Ed(ListInsert(notes, insert_idx, Note("C4", 8, new_beat, "quarter", 0)),
           insert_idx)

app_toggle_instrument(notes, cur) ==
    IF ~has_current_note(notes, cur) THEN Ed(notes, cur)
    ELSE Ed([notes EXCEPT ![cur + 1].instrument = IF @ = 0 THEN 1 ELSE 0], cur)

\* note.duration / 2.0
Half(duration) == duration \div 2

\* Fault: the second half starts at the beat of the first.
split_note_same_beat(notes, cur) ==
    IF ~has_current_note(notes, cur) THEN Ed(notes, cur)
    ELSE LET note == notes[cur + 1] IN
         IF note.duration <= 2 THEN Ed(notes, cur)
         ELSE LET half_duration == Half(note.duration)
                  mapped_type   == note_type_for_duration(half_duration)
                  first  == [note EXCEPT !.duration = half_duration,
                                         !.note_type = IF mapped_type # "None"
                                                       THEN mapped_type ELSE @]
                  second == Note(first.pitch, half_duration, first.beat,
                                 first.note_type, first.instrument)
              IN  Ed(ListInsert([notes EXCEPT ![cur + 1] = first], cur + 1, second), cur)

split_note(notes, cur) ==
    IF ~has_current_note(notes, cur) THEN Ed(notes, cur)
    ELSE LET note == notes[cur + 1] IN
         IF note.duration <= 2 THEN Ed(notes, cur)
         ELSE LET half_duration == Half(note.duration)
                  mapped_type   == note_type_for_duration(half_duration)
                  first  == [note EXCEPT !.duration = half_duration,
                                         !.note_type = IF mapped_type # "None"
                                                       THEN mapped_type ELSE @]
                  second == Note(first.pitch, half_duration, first.beat + half_duration,
                                 first.note_type, first.instrument)
              IN  Ed(ListInsert([notes EXCEPT ![cur + 1] = first], cur + 1, second), cur)

\* Fault: the successor is merged wherever it starts.
merge_note_any_beat(notes, cur) ==
    IF Len(notes) = 0 \/ cur >= Len(notes) - 1 THEN Ed(notes, cur)
    ELSE LET c   == notes[cur + 1]
             nxt == notes[cur + 2]
         IN  IF c.instrument # nxt.instrument THEN Ed(notes, cur)
             ELSE Ed(ListPop([notes EXCEPT ![cur + 1].duration = @ + nxt.duration],
                             cur + 1), cur)

merge_note(notes, cur) ==
    IF Len(notes) = 0 \/ cur >= Len(notes) - 1 THEN Ed(notes, cur)
    ELSE LET c   == notes[cur + 1]
             nxt == notes[cur + 2]
         IN  IF c.instrument # nxt.instrument THEN Ed(notes, cur)
             ELSE IF c.beat + c.duration # nxt.beat THEN Ed(notes, cur)
             ELSE LET duration    == c.duration + nxt.duration
                      mapped_type == note_type_for_duration(duration)
                      merged == [c EXCEPT !.duration = duration,
                                          !.note_type = IF mapped_type # "None"
                                                        THEN mapped_type ELSE @]
                  IN  Ed(ListPop([notes EXCEPT ![cur + 1] = merged], cur + 1), cur)

make_rest(notes, cur) ==
    IF ~has_current_note(notes, cur) THEN Ed(notes, cur)
    ELSE Ed([notes EXCEPT ![cur + 1].pitch = "REST"], cur)

\* The keys of the actions dict of the app's execute.
AppEditorCommands ==
    {"move_left", "move_right", "pitch_up", "pitch_down", "delete_note",
     "add_note", "toggle_instrument", "split_note", "merge_note", "make_rest"}

app_execute(command, notes, cur) ==
    CASE command = "move_left"         -> app_move_left(notes, cur)
      [] command = "move_right"        -> app_move_right(notes, cur)
      [] command = "pitch_up"          -> app_pitch_up(notes, cur)
      [] command = "pitch_down"        -> app_pitch_down(notes, cur)
      [] command = "delete_note"       -> app_delete_note(notes, cur)
      [] command = "add_note"          -> app_add_note(notes, cur)
      [] command = "toggle_instrument" -> app_toggle_instrument(notes, cur)
      [] command = "split_note"        -> split_note(notes, cur)
      [] command = "merge_note"        -> merge_note(notes, cur)
      [] command = "make_rest"         -> make_rest(notes, cur)
      [] OTHER                         -> Ed(notes, cur)

\* pyqtSignal() sequence_changed and pyqtSignal(int) cursor_changed
sequence_changed == [signal |-> "sequence_changed", index |-> -1]
cursor_changed(index) == [signal |-> "cursor_changed", index |-> index]

\* Fault: no command emits cursor_changed.
app_signals_edits_only(command, notes, cur) ==
    IF app_execute(command, notes, cur).notes # notes
    THEN <<sequence_changed>> ELSE <<>>

\* The signals a command emits, in the order of the emit calls; the cursor
\* setter and the commands emit cursor_changed with the value _cursor has
\* then.
app_signals(command, notes, cur) ==
    LET after == app_execute(command, notes, cur)
        edit  == <<sequence_changed>>
        both  == <<sequence_changed, cursor_changed(after.cursor)>>
    IN  CASE command \in {"move_left", "move_right"} -> <<cursor_changed(after.cursor)>>
          [] command = "pitch_up" ->
                IF ~has_current_note(notes, cur) THEN <<>>
                ELSE IF is_rest(notes[cur + 1]) THEN edit
                ELSE IF pitch_index(notes[cur + 1]) < Len(PITCH_ORDER) - 1 THEN edit
                ELSE <<>>
          [] command = "pitch_down" ->
                IF ~has_current_note(notes, cur) THEN <<>>
                ELSE IF is_rest(notes[cur + 1]) THEN edit
                ELSE IF pitch_index(notes[cur + 1]) > 0 THEN edit
                ELSE <<>>
          [] command = "delete_note" -> IF Len(notes) = 0 THEN <<>> ELSE both
          [] command = "add_note" -> both
          [] command = "toggle_instrument" ->
                IF ~has_current_note(notes, cur) THEN <<>> ELSE edit
          [] command = "split_note" ->
                IF ~has_current_note(notes, cur) THEN <<>>
                ELSE IF notes[cur + 1].duration <= 2 THEN <<>>
                ELSE both
          [] command = "merge_note" ->
                IF Len(notes) = 0 \/ cur >= Len(notes) - 1 THEN <<>>
                ELSE IF notes[cur + 1].instrument # notes[cur + 2].instrument THEN <<>>
                ELSE IF notes[cur + 1].beat + notes[cur + 1].duration # notes[cur + 2].beat
                THEN <<>>
                ELSE both
          [] command = "make_rest" ->
                IF ~has_current_note(notes, cur) THEN <<>> ELSE edit
          [] OTHER -> <<>>

\* ------------------------------------------------- the editors side by side
\* A stream of gesture labels goes through map_gesture; the command is
\* executed by the Composition App editor and by the server editor.  ed keeps
\* the last two commands and the editor states around them:
\*   app, srv          the two editors now (each running on its own state)
\*   appPrev, srvPrev  the editors before the last command
\*   appStart, srvStart  the editors before the command before the last
\*   srvSame, srvKnown the server editor's result and return value for the
\*                     last command when it starts from the app editor's state

\* Number of labels of a run.
MaxCommands == 2

\* The labels sent: the table's, the known commands' names, labels in
\* capitals that are not in the table, and labels that are no command.
EdLabels ==
    GestureLabels \cup KNOWN_COMMANDS
        \cup {"MOVE_LEFT", "MOVE_RIGHT", "SWITCH_EDIT_STAFF", "Pitch_Up",
              "WAVE", "scroll_forward", ""}

\* Sequences an editor is constructed on (loaded from a file, received from
\* the server, or built by earlier commands).
EdSequences ==
    { <<>>,
      << Note("C4", 8, 0, "quarter", 0) >>,
      << Note("REST", 8, 0, "quarter", 0) >>,
      << Note("C4", 2, 0, "sixteenth", 1) >>,
      << Note("E4", 8, 0, "half", 0) >>,
      << Note("F4", 24, 0, "half", 0) >>,
      << Note("C#4", 16, 0, "half", 0), Note("B5", 16, 16, "half", 0) >>,
      << Note("A#5", 4, 0, "eighth", 1), Note("REST", 4, 4, "eighth", 0) >>,
      << Note("REST", 8, 0, "quarter", 0), Note("A4", 8, 16, "quarter", 0) >>,
      << Note("D4", 8, 0, "quarter", 0), Note("REST", 8, 8, "quarter", 0),
         Note("G4", 32, 16, "whole", 0) >> }

\* SequenceEditor.__init__ leaves the cursor at 0; commands move it.
EdInit ==
    /\ AppStateInit
    /\ det = DetOff
    /\ mw = MwOff
    /\ life = LifeOff
    /\ link = LinkOff
    /\ post = PostOff
    /\ \E notes \in EdSequences :
       \E cur \in 0..Max(0, Len(notes) - 1) :
          ed = [on |-> TRUE, n |-> 0, label |-> "", command |-> NoCommand,
                command1 |-> NoCommand,
                app |-> Ed(notes, cur), appPrev |-> Ed(notes, cur),
                appStart |-> Ed(notes, cur),
                srv |-> Ed(notes, cur), srvPrev |-> Ed(notes, cur),
                srvStart |-> Ed(notes, cur),
                srvSame |-> Ed(notes, cur), srvKnown |-> FALSE]

\* The label is mapped; unless it maps to no command or to toggle_playback
\* (which gestures.py forwards without executing it), the command is executed
\* by both editors.
EdGesture(g) ==
    /\ ed.on
    /\ ed.n < MaxCommands
    /\ LET command == map_gesture(g)
           same    == execute(command, ed.app.notes, ed.app.cursor)
           own     == execute(command, ed.srv.notes, ed.srv.cursor)
           runs    == command \notin {NoCommand, "toggle_playback"}
       IN  ed' = [on |-> TRUE, n |-> ed.n + 1, label |-> g, command |-> command,
                  command1 |-> ed.command,
                  app |-> IF runs THEN app_execute(command, ed.app.notes, ed.app.cursor)
                          ELSE ed.app,
                  appPrev |-> ed.app, appStart |-> ed.appPrev,
                  srv |-> IF runs THEN Ed(own.notes, own.cursor) ELSE ed.srv,
                  srvPrev |-> ed.srv, srvStart |-> ed.srvPrev,
                  srvSame |-> IF runs THEN Ed(same.notes, same.cursor) ELSE ed.app,
                  srvKnown |-> runs /\ same.known]
    /\ UNCHANGED <<serverVars, det, mw, life, link, post>>

EdNext == \E g \in EdLabels : EdGesture(g)

EditorSpec == EdInit /\ [][EdNext]_vars

\* ------------------------------------------------- Composition App window
\*
\* MainWindow of music_app/app.py: the sequence, its SequenceEditor, the two
\* edit cursors, the playback cursor and the AudioEngine's playback.  The
\* editor's signals are connected directly, so a slot runs inside the emit
\* call and sees the notes and the cursor the command has already written.
\* A window w is a record
\*   notes         _sequence.notes (the editor wraps the same object)
\*   cursor        _editor._cursor
\*   edit_cursors  _edit_cursors, slot 0 at index 1 and slot 1 at index 2
\*   slot, focus   _active_edit_cursor_slot, _active_cursor_focus
\*   playback      _playback_cursor_index
\*   start         _playback_start_index
\*   playing       AudioEngine._playing
\*   snapshot      number of notes of the sequence the AudioEngine plays from

\* Fault: the index is returned as it is.
clamp_cursor_identity(notes, index) == index

clamp_cursor(notes, index) ==
    IF Len(notes) = 0 THEN 0 ELSE Max(0, Min(index, Len(notes) - 1))

sync_staff_edit_cursors(w) ==
    [w EXCEPT !.edit_cursors =
        IF Len(w.notes) = 0 THEN <<0, 0>>
        ELSE << clamp_cursor(w.notes, w.edit_cursors[1]),
                clamp_cursor(w.notes, w.edit_cursors[2]) >>]

on_sequence_changed(w) ==
    sync_staff_edit_cursors(
        [w EXCEPT !.playback = clamp_cursor(w.notes, w.playback),
                  !.start    = clamp_cursor(w.notes, w.start)])

on_editor_cursor_changed(w, index) ==
    sync_staff_edit_cursors(
        IF w.focus # 2
        THEN [w EXCEPT !.edit_cursors[w.slot + 1] = clamp_cursor(w.notes, index)]
        ELSE w)

\* The slots run for the signals in emission order.
RECURSIVE deliver(_, _)
deliver(w, signals) ==
    IF signals = <<>> THEN w
    ELSE deliver(IF Head(signals).signal = "sequence_changed"
                 THEN on_sequence_changed(w)
                 ELSE on_editor_cursor_changed(w, Head(signals).index),
                 Tail(signals))

\* _editor.execute(command)
editor_execute(w, command) ==
    LET after == app_execute(command, w.notes, w.cursor)
    IN  deliver([w EXCEPT !.notes = after.notes, !.cursor = after.cursor],
                app_signals(command, w.notes, w.cursor))

\* _editor.cursor = value
editor_set_cursor(w, value) ==
    LET c == IF Len(w.notes) = 0 THEN 0 ELSE Max(0, Min(value, Len(w.notes) - 1))
    IN  deliver([w EXCEPT !.cursor = c], <<cursor_changed(c)>>)

on_playback_finished(w) ==
    IF Len(w.notes) > 0
    THEN [w EXCEPT !.playback = clamp_cursor(w.notes, w.start), !.playing = FALSE]
    ELSE [w EXCEPT !.playing = FALSE]

on_note_playing(w, index) ==
    [w EXCEPT !.playback = clamp_cursor(w.notes, index)]

\* AudioEngine.play_sequence on a sequence without notes finishes at once.  On
\* any other it groups the notes by beat and plays the group of the start
\* note's beat before it returns; note_playing carries the index of the
\* first note of the group.
toggle_playback(w) ==
    IF w.playing
    THEN IF Len(w.notes) > 0
         THEN [w EXCEPT !.playing = FALSE,
                        !.playback = clamp_cursor(w.notes, w.start)]
         ELSE [w EXCEPT !.playing = FALSE]
    ELSE LET start_index == IF Len(w.notes) > 0
                            THEN clamp_cursor(w.notes, w.playback) ELSE 0
             started == [w EXCEPT !.start = start_index,
                                  !.snapshot = Len(w.notes)]
             group   == {j \in 0..(Len(w.notes) - 1) :
                            w.notes[j + 1].beat = w.notes[start_index + 1].beat}
             first   == CHOOSE j \in group : \A k \in group : j <= k
         IN  IF Len(w.notes) = 0 THEN on_playback_finished(started)
             ELSE on_note_playing([started EXCEPT !.playing = TRUE],
                                  first)

toggle_active_edit_cursor(w) ==
    LET focus == (w.focus + 1) % 3
    IN  IF focus = 2 THEN [w EXCEPT !.focus = 2]
        ELSE LET v == [w EXCEPT !.focus = focus, !.slot = focus]
             IN  editor_set_cursor(v, clamp_cursor(v.notes, v.edit_cursors[v.slot + 1]))

move_playback_cursor(w, delta) ==
    IF Len(w.notes) = 0 THEN w
    ELSE [w EXCEPT !.playback = clamp_cursor(w.notes, w.playback + delta)]

\* The first note of the other instrument on the current beat, else the first
\* of those nearest in beat.
switch_edit_staff(w) ==
    IF Len(w.notes) = 0 \/ w.cursor < 0 \/ w.cursor >= Len(w.notes) THEN w
    ELSE LET current == w.notes[w.cursor + 1]
             others  == {i \in 1..Len(w.notes) :
                            w.notes[i].instrument # current.instrument}
             dist(i) == IF w.notes[i].beat >= current.beat
                        THEN w.notes[i].beat - current.beat
                        ELSE current.beat - w.notes[i].beat
             best    == {i \in others : \A j \in others :
                            dist(i) < dist(j) \/ (dist(i) = dist(j) /\ i <= j)}
         IN  IF others = {} THEN w
             ELSE editor_set_cursor(w, (CHOOSE i \in best : TRUE) - 1)

\* _on_remote_sequence, _upload_json_file and _import_midi install the new
\* sequence and reset every cursor; _on_remote_sequence ignores a sequence
\* without notes.
install_sequence(w, notes) ==
    editor_set_cursor([w EXCEPT !.notes = notes, !.edit_cursors = <<0, 0>>,
                                !.slot = 0, !.focus = 0,
                                !.playback = 0, !.start = 0], 0)

on_remote_sequence(w, notes) ==
    IF Len(notes) = 0 THEN w ELSE install_sequence(w, notes)

\* _load_json_sequence sets the editor's cursor before it resets the
\* window's cursors, and emits both signals at the end.
load_json_sequence(w, notes) ==
    LET v == editor_set_cursor([w EXCEPT !.notes = notes], 0)
    IN  deliver(sync_staff_edit_cursors(
                    [v EXCEPT !.edit_cursors = <<0, 0>>, !.playback = 0,
                              !.start = 0, !.slot = 0, !.focus = 0]),
                <<sequence_changed, cursor_changed(0)>>)

on_remote_command(w, command) ==
    IF command = "toggle_playback" THEN toggle_playback(w)
    ELSE IF command = "switch_edit_staff" THEN switch_edit_staff(w)
    ELSE editor_execute(w, command)

keyPressEvent(w, key) ==
    CASE key = "Space" -> toggle_playback(w)
      [] key = "Left" -> IF w.focus = 2 THEN move_playback_cursor(w, -1)
                         ELSE editor_execute(w, "move_left")
      [] key = "Right" -> IF w.focus = 2 THEN move_playback_cursor(w, 1)
                          ELSE editor_execute(w, "move_right")
      [] key = "Up" -> editor_execute(w, "pitch_up")
      [] key = "Down" -> editor_execute(w, "pitch_down")
      [] key = "Backspace" -> editor_execute(w, "delete_note")
      [] key = "Tab" -> switch_edit_staff(w)
      [] key = "T" -> toggle_active_edit_cursor(w)
      [] key = "U" -> editor_execute(w, "split_note")
      [] key = "I" -> editor_execute(w, "merge_note")
      [] key = "O" -> editor_execute(w, "make_rest")
      [] OTHER -> w

\* Number of events a window handles in a run.
MaxWindowEvents == 5

\* Sequences the window starts with, loads or receives.
MwSequences ==
    { <<>>,
      << Note("C4", 8, 0, "quarter", 0) >>,
      << Note("D4", 8, 0, "quarter", 0), Note("E4", 8, 0, "quarter", 1),
         Note("G4", 8, 8, "quarter", 0) >> }

MwInit ==
    /\ AppStateInit
    /\ ed = EdOff
    /\ det = DetOff
    /\ life = LifeOff
    /\ link = LinkOff
    /\ post = PostOff
    /\ \E notes \in MwSequences :
          LET w == [notes |-> notes, cursor |-> 0, edit_cursors |-> <<0, 0>>,
                    slot |-> 0, focus |-> 0, playback |-> 0, start |-> 0,
                    playing |-> FALSE, snapshot |-> 0]
          IN  mw = [on |-> TRUE, n |-> 0, event |-> "", win |-> w, before |-> w]

MwHandled(event, w) ==
    /\ mw' = [on |-> TRUE, n |-> mw.n + 1, event |-> event, win |-> w,
              before |-> mw.win]
    /\ UNCHANGED <<serverVars, ed, det, life, link, post>>

MwKey(key) ==
    /\ mw.on
    /\ mw.n < MaxWindowEvents
    /\ MwHandled(key, keyPressEvent(mw.win, key))

MwRemoteCommand(command) ==
    /\ mw.on
    /\ mw.n < MaxWindowEvents
    /\ MwHandled(command, on_remote_command(mw.win, command))

MwRemoteSequence(notes) ==
    /\ mw.on
    /\ mw.n < MaxWindowEvents
    /\ MwHandled("sequence_update", on_remote_sequence(mw.win, notes))

MwFileLoad(notes) ==
    /\ mw.on
    /\ mw.n < MaxWindowEvents
    /\ \/ MwHandled("upload_json_file", install_sequence(mw.win, notes))
       \/ MwHandled("load_json_sequence", load_json_sequence(mw.win, notes))

\* The AudioEngine reports an index of the sequence it started from.
MwNotePlaying(index) ==
    /\ mw.on
    /\ mw.n < MaxWindowEvents
    /\ mw.win.playing
    /\ index < mw.win.snapshot
    /\ MwHandled("note_playing", on_note_playing(mw.win, index))

MwPlaybackFinished ==
    /\ mw.on
    /\ mw.n < MaxWindowEvents
    /\ mw.win.playing
    /\ MwHandled("playback_finished", on_playback_finished(mw.win))

MwNext ==
    \/ \E key \in {"Space", "Left", "Right", "Up", "Down", "Backspace", "Tab",
                    "T", "U", "I", "O"} : MwKey(key)
    \/ \E command \in KNOWN_COMMANDS : MwRemoteCommand(command)
    \/ \E notes \in MwSequences : MwRemoteSequence(notes)
    \/ \E notes \in MwSequences : MwFileLoad(notes)
    \/ \E index \in 0..2 : MwNotePlaying(index)
    \/ MwPlaybackFinished

WindowSpec == MwInit /\ [][MwNext]_vars

\* ---------------------------------------- Composition App: client, shutdown
\*
\* The ServerClient thread of music_app/server_client.py and the shutdown
\* path of MainWindow.  The slots of the shutdown triggers run on the GUI
\* thread, one after the other; the client thread runs beside them.  `life`
\* is a record
\*   shutdown_complete  MainWindow._shutdown_complete
\*   stt                a speech recording is running
\*   released           the release calls made so far, in order
\*   n, trigger         the shutdown triggers handled; the last one
\*   running            ServerClient._running
\*   pc                 where _connect_loop is: "connecting" (in
\*                      websockets.connect), "listening" (in _listen),
\*                      "backoff" (in the sleeps after a loss), "done"
\*   slept              sleeps of 0.1 s completed in this backoff
\*   log                the connected / disconnected signals emitted

\* Shutdown triggers handled in a run.
MaxTriggers == 3

\* Signals the client emits in a run.
MaxSignals == 4

\* for _ in range(20)
RECONNECT_SLEEPS == 20

\* Fault: the release calls are made on every trigger.
shutdown_every_time(l) ==
    [l EXCEPT !.shutdown_complete = TRUE,
              !.stt = FALSE,
              !.running = FALSE,
              !.released = @ \o (IF l.stt THEN <<"stt_worker.stop_recording">> ELSE <<>>)
                             \o <<"audio.stop", "server_client.stop", "audio.cleanup">>]

\* MainWindow._shutdown; an exception of a release call is swallowed.
\* ServerClient.stop clears _running and waits up to 3 s for the thread.
shutdown(l) ==
    IF l.shutdown_complete THEN l
    ELSE [l EXCEPT !.shutdown_complete = TRUE,
                   !.stt = FALSE,
                   !.running = FALSE,
                   !.released = (IF l.stt THEN <<"stt_worker.stop_recording">> ELSE <<>>)
                                  \o <<"audio.stop", "server_client.stop", "audio.cleanup">>]

LifeInit ==
    /\ AppStateInit
    /\ ed = EdOff
    /\ det = DetOff
    /\ mw = MwOff
    /\ link = LinkOff
    /\ post = PostOff
    /\ \E stt \in BOOLEAN :
          life = [on |-> TRUE, shutdown_complete |-> FALSE, stt |-> stt,
                  released |-> <<>>, n |-> 0, trigger |-> "",
                  running |-> TRUE, pc |-> "connecting", slept |-> 0,
                  log |-> <<>>]

\* closeEvent, QApplication.aboutToQuit, _audio.destroyed and
\* _server_client.finished (the thread has ended) all end in _shutdown.
LifeTrigger(t) ==
    /\ life.on
    /\ life.n < MaxTriggers
    /\ t = "server_client.finished" => life.pc = "done"
    /\ life' = [shutdown(life) EXCEPT !.n = life.n + 1, !.trigger = t]
    /\ UNCHANGED <<serverVars, ed, det, mw, link, post>>

\* websockets.connect returns: connected is emitted and _listen starts.
ClientConnects ==
    /\ life.on
    /\ life.pc = "connecting"
    /\ Len(life.log) < MaxSignals
    /\ life' = [life EXCEPT !.pc = "listening", !.log = Append(@, "connected")]
    /\ UNCHANGED <<serverVars, ed, det, mw, link, post>>

\* websockets.connect or the iteration over the socket raises: the except
\* clause of _connect_loop.
ClientRaises ==
    /\ life.on
    /\ life.pc \in {"connecting", "listening"}
    /\ life.running => Len(life.log) < MaxSignals
    /\ life' = IF ~life.running THEN [life EXCEPT !.pc = "done"]
               ELSE [life EXCEPT !.pc = "backoff", !.slept = 0,
                                 !.log = Append(@, "disconnected")]
    /\ UNCHANGED <<serverVars, ed, det, mw, link, post>>

\* The iteration over the socket ends without an exception (the server, or
\* the close that stop() requested, closed the connection cleanly): _listen
\* returns and the while loop tests _running.
ClientCleanClose ==
    /\ life.on
    /\ life.pc = "listening"
    /\ life' = [life EXCEPT !.pc = IF life.running THEN "connecting" ELSE "done"]
    /\ UNCHANGED <<serverVars, ed, det, mw, link, post>>

\* A frame arrives after stop(): _listen breaks and the while loop ends.
ClientFrameAfterStop ==
    /\ life.on
    /\ life.pc = "listening"
    /\ ~life.running
    /\ life' = [life EXCEPT !.pc = "done"]
    /\ UNCHANGED <<serverVars, ed, det, mw, link, post>>

\* One round of the backoff loop, or its end.
ClientSleeps ==
    /\ life.on
    /\ life.pc = "backoff"
    /\ life' = IF ~life.running THEN [life EXCEPT !.pc = "done"]
               ELSE IF life.slept < RECONNECT_SLEEPS
               THEN [life EXCEPT !.slept = @ + 1]
               ELSE [life EXCEPT !.pc = "connecting"]
    /\ UNCHANGED <<serverVars, ed, det, mw, link, post>>

LifeNext ==
    \/ \E t \in {"closeEvent", "aboutToQuit", "audio.destroyed",
                 "server_client.finished"} : LifeTrigger(t)
    \/ ClientConnects
    \/ ClientRaises
    \/ ClientCleanClose
    \/ ClientFrameAfterStop
    \/ ClientSleeps

LifeSpec == LifeInit /\ [][LifeNext]_vars

\* ------------------------------------------------------- hand-gesture app
\*
\* The capture loop of main.py, one action per camera frame, with the
\* MotionBuffer and the GestureDetector.  A buffered frame is reduced to
\* what the detectors read from it: the set of extended fingers, the
\* thumb-tip/index-tip distance and the position of the hand (index tip and
\* palm centre move with it), all as stored in the buffer, that is after the
\* smoothing of MotionBuffer.push.  Distances are in thousandths and positions
\* in hundredths of the frame size, clock readings in tenths of a second; the
\* clock is read once per frame.

GESTURE_PITCH_UP == "PITCH_UP"
GESTURE_PITCH_DOWN == "PITCH_DOWN"
GESTURE_TOGGLE_PLAYBACK == "TOGGLE_PLAYBACK"
GESTURE_SCROLL_FORWARD == "SCROLL_FORWARD"
GESTURE_SCROLL_BACKWARD == "SCROLL_BACKWARD"
GESTURE_SWITCH_STAFF == "SWITCH_STAFF"

ALL_GESTURES ==
    {GESTURE_PITCH_UP, GESTURE_PITCH_DOWN, GESTURE_TOGGLE_PLAYBACK,
     GESTURE_SCROLL_FORWARD, GESTURE_SCROLL_BACKWARD, GESTURE_SWITCH_STAFF}

\* detect returning None
NoGesture == "<none>"

BUFFER_SIZE == 20
MIN_FRAMES_FOR_DETECTION == 8
\* 0.6 s
GESTURE_COOLDOWN_S == 6
\* 0.12
SWIPE_MIN_DISPLACEMENT == 12
SWIPE_FRAME_WINDOW == 12
\* 0.10
PALM_SWIPE_MIN_DISPLACEMENT == 10
PALM_SWIPE_FRAME_WINDOW == 12
PEACE_SIGN_FRAME_WINDOW == 8
PEACE_SIGN_MIN_HOLD_FRAMES == 4
\* 0.045
PINCH_DISTANCE_THRESHOLD == 45
\* 0.07
PINCH_OPEN_THRESHOLD == 70
PINCH_FRAME_WINDOW == 8

\* FingerState: the set of extended fingers
Fingers == {"thumb", "index", "middle", "ring", "pinky"}

count_extended(fs) == Cardinality(fs)

only_index(fs) ==
    /\ "index" \in fs
    /\ "middle" \notin fs
    /\ "ring" \notin fs
    /\ "pinky" \notin fs

open_palm(fs) == count_extended(fs) >= 4

\* FingerState.peace_sign is read by the detector and defined nowhere in the
\* sources; it is taken from the specification: exactly index and middle
\* extended.
peace_sign(fs) == fs = {"index", "middle"}

\* FrameSnapshot
Frame(dist, fs, x, y) == [dist |-> dist, fingers |-> fs, x |-> x, y |-> y]

\* MotionBuffer.push on the deque of BUFFER_SIZE snapshots
push(buffer, f) ==
    IF Len(buffer) = BUFFER_SIZE THEN Append(Tail(buffer), f) ELSE Append(buffer, f)

clear_keeps(buffer) == buffer
clear(buffer) == <<>>

recent(buffer, n) ==
    IF Len(buffer) <= n THEN buffer
    ELSE SubSeq(buffer, Len(buffer) - n + 1, Len(buffer))

Abs(v) == IF v < 0 THEN 0 - v ELSE v

\* _cooldowns maps a gesture to the time of its last firing; the model keeps
\* the time elapsed since then, up to GESTURE_COOLDOWN_S (a gesture never
\* fired has last = 0.0, the epoch, long ago).
NeverFired == [g \in ALL_GESTURES |-> GESTURE_COOLDOWN_S]

elapse(cooldowns, d) ==
    [g \in ALL_GESTURES |-> Min(GESTURE_COOLDOWN_S, cooldowns[g] + d)]

on_cooldown_never(cooldowns, gesture) == FALSE
on_cooldown(cooldowns, gesture) == cooldowns[gesture] < GESTURE_COOLDOWN_S

fire(cooldowns, gesture) == [cooldowns EXCEPT ![gesture] = 0]

detect_swipe(buffer, fs) ==
    IF ~only_index(fs) THEN NoGesture
    ELSE IF Len(buffer) < SWIPE_FRAME_WINDOW THEN NoGesture
    ELSE LET positions == recent(buffer, SWIPE_FRAME_WINDOW)
             dx == positions[Len(positions)].x - positions[1].x
             dy == positions[Len(positions)].y - positions[1].y
         IN  IF Abs(dy) >= SWIPE_MIN_DISPLACEMENT
             THEN IF Abs(dx) > 0 /\ 10 * Abs(dy) < 18 * Abs(dx) THEN NoGesture
                  ELSE IF dy < 0 THEN GESTURE_PITCH_UP
                  ELSE GESTURE_PITCH_DOWN
             ELSE NoGesture

\* Fault: a diagonal movement counts as a swipe.
detect_palm_swipe_any_angle(buffer, fs) ==
    IF ~open_palm(fs) THEN NoGesture
    ELSE IF Len(buffer) < PALM_SWIPE_FRAME_WINDOW THEN NoGesture
    ELSE LET positions == recent(buffer, PALM_SWIPE_FRAME_WINDOW)
             dx == positions[Len(positions)].x - positions[1].x
         IN  IF Abs(dx) < PALM_SWIPE_MIN_DISPLACEMENT THEN NoGesture
             ELSE IF dx < 0 THEN GESTURE_SCROLL_FORWARD
             ELSE GESTURE_SCROLL_BACKWARD

detect_palm_swipe(buffer, fs) ==
    IF ~open_palm(fs) THEN NoGesture
    ELSE IF Len(buffer) < PALM_SWIPE_FRAME_WINDOW THEN NoGesture
    ELSE LET positions == recent(buffer, PALM_SWIPE_FRAME_WINDOW)
             dx == positions[Len(positions)].x - positions[1].x
             dy == positions[Len(positions)].y - positions[1].y
         IN  IF Abs(dx) < PALM_SWIPE_MIN_DISPLACEMENT THEN NoGesture
             ELSE IF Abs(dy) > 0 /\ 10 * Abs(dx) < 18 * Abs(dy) THEN NoGesture
             ELSE IF dx < 0 THEN GESTURE_SCROLL_FORWARD
             ELSE GESTURE_SCROLL_BACKWARD

\* The confidence of a palm swipe, in hundredths:
\* min(1.0, abs_dx / (PALM_SWIPE_MIN_DISPLACEMENT * 2)), rounded down.
palm_swipe_confidence(buffer) ==
    LET positions == recent(buffer, PALM_SWIPE_FRAME_WINDOW)
        dx == positions[Len(positions)].x - positions[1].x
    IN  Min(100, (100 * Abs(dx)) \div (PALM_SWIPE_MIN_DISPLACEMENT * 2))

\* both return the detector's result and the new value of its latch
detect_peace_sign_no_latch(buffer, fs, peace_was_inactive) ==
    IF peace_sign(fs) /\ Len(buffer) >= PEACE_SIGN_MIN_HOLD_FRAMES
    THEN [result |-> GESTURE_SWITCH_STAFF, peace_was_inactive |-> FALSE]
    ELSE [result |-> NoGesture, peace_was_inactive |-> TRUE]
detect_peace_sign(buffer, fs, peace_was_inactive) ==
    IF ~peace_sign(fs)
    THEN [result |-> NoGesture, peace_was_inactive |-> TRUE]
    ELSE IF ~peace_was_inactive
    THEN [result |-> NoGesture, peace_was_inactive |-> peace_was_inactive]
    ELSE LET frames == recent(buffer, PEACE_SIGN_FRAME_WINDOW)
             first  == Len(frames) - PEACE_SIGN_MIN_HOLD_FRAMES + 1
             peace_count ==
                Cardinality({i \in first..Len(frames) : peace_sign(frames[i].fingers)})
         IN  IF Len(frames) < PEACE_SIGN_MIN_HOLD_FRAMES
             THEN [result |-> NoGesture, peace_was_inactive |-> peace_was_inactive]
             ELSE IF peace_count < PEACE_SIGN_MIN_HOLD_FRAMES
             THEN [result |-> NoGesture, peace_was_inactive |-> peace_was_inactive]
             ELSE [result |-> GESTURE_SWITCH_STAFF, peace_was_inactive |-> FALSE]

detect_pinch_level(buffer, pinch_was_open) ==
    IF /\ Len(buffer) >= PINCH_FRAME_WINDOW
       /\ buffer[Len(buffer)].dist < PINCH_DISTANCE_THRESHOLD
    THEN [result |-> GESTURE_TOGGLE_PLAYBACK, pinch_was_open |-> FALSE]
    ELSE [result |-> NoGesture, pinch_was_open |-> pinch_was_open]
detect_pinch(buffer, pinch_was_open) ==
    IF Len(buffer) < PINCH_FRAME_WINDOW
    THEN [result |-> NoGesture, pinch_was_open |-> pinch_was_open]
    ELSE LET distances    == recent(buffer, PINCH_FRAME_WINDOW)
             current_dist == distances[Len(distances)].dist
             some_open    == \E i \in 1..Len(distances) :
                                distances[i].dist >= PINCH_OPEN_THRESHOLD
             was_open     == pinch_was_open \/ some_open
         IN  IF current_dist < PINCH_DISTANCE_THRESHOLD /\ was_open
             THEN [result |-> GESTURE_TOGGLE_PLAYBACK, pinch_was_open |-> FALSE]
             ELSE [result |-> NoGesture, pinch_was_open |-> was_open]

\* GestureDetector.detect on the buffer after the push: the gesture of the
\* event it returns (NoGesture for None), the detector's state afterwards,
\* and the results it skipped because their gesture was on cooldown.
detect(buffer, fs, s) ==
    LET palm       == detect_palm_swipe(buffer, fs)
        palmFires  == palm # NoGesture /\ ~on_cooldown(s.cooldowns, palm)
        pinch      == detect_pinch(buffer, s.pinch_was_open)
        pinchFires == pinch.result # NoGesture /\ ~on_cooldown(s.cooldowns, pinch.result)
        peace      == detect_peace_sign(buffer, fs, s.peace_was_inactive)
        peaceFires == peace.result # NoGesture /\ ~on_cooldown(s.cooldowns, peace.result)
        swipe      == detect_swipe(buffer, fs)
        swipeFires == swipe # NoGesture /\ ~on_cooldown(s.cooldowns, swipe)
        out(gesture, was_open, was_inactive, results) ==
            [gesture            |-> gesture,
             cooldowns          |-> IF gesture = NoGesture THEN s.cooldowns
                                    ELSE fire(s.cooldowns, gesture),
             pinch_was_open     |-> was_open,
             peace_was_inactive |-> was_inactive,
             skipped            |-> results \ {NoGesture}]
    IN  IF Len(buffer) < MIN_FRAMES_FOR_DETECTION
        THEN out(NoGesture, s.pinch_was_open, s.peace_was_inactive, {})
        ELSE IF palmFires
        THEN out(palm, s.pinch_was_open, s.peace_was_inactive, {})
        ELSE IF pinchFires
        THEN out(pinch.result, pinch.pinch_was_open, s.peace_was_inactive, {palm})
        ELSE IF peaceFires
        THEN out(peace.result, pinch.pinch_was_open, peace.peace_was_inactive,
                 {palm, pinch.result})
        ELSE IF swipeFires
        THEN out(swipe, pinch.pinch_was_open, peace.peace_was_inactive,
                 {palm, pinch.result, peace.result})
        ELSE out(NoGesture, pinch.pinch_was_open, peace.peace_was_inactive,
                 {palm, pinch.result, peace.result, swipe})

\* ------------------------------------------------------ the capture loop

\* frames per run of the capture loop
MaxFrames == 17

\* changes of the hand's shape between two frames without a hand
MaxChanges == 2

\* time between two frames, for frame rates of 10, 3.3 and 1.7 frames per
\* second
FrameGaps == {1, 3, GESTURE_COOLDOWN_S}

\* What the camera sees while the hand is in view: the hand changes between
\* two shapes, at a steady frame rate.
Hands ==
    {   \* thumb and index apart / touching
        {Frame(80, {}, 0, 0), Frame(30, {}, 0, 0)},
        \* a peace sign with the thumb away from / at the index tip
        {Frame(80, {"index", "middle"}, 0, 0), Frame(30, {"index", "middle"}, 0, 0)},
        \* a peace sign / a fist
        {Frame(30, {"index", "middle"}, 0, 0), Frame(55, {}, 0, 0)},
        \* an open palm at two places side by side, pinching at one of them
        {Frame(80, Fingers, 0, 0), Frame(30, Fingers, 12, 0)},
        \* an open palm at two places, the smallest swipe / too steep a one
        {Frame(80, Fingers, 0, 0), Frame(80, Fingers, 10, 5)},
        {Frame(80, Fingers, 0, 0), Frame(80, Fingers, 12, 7)},
        \* the index finger at two places one above the other
        {Frame(80, {"index"}, 0, 12), Frame(80, {"thumb", "index"}, 0, 0)}
    }

\* time since the last event of each gesture, -1 when there was none
since_event(ages, d) ==
    [g \in ALL_GESTURES |->
        IF ages[g] = -1 THEN -1 ELSE Min(GESTURE_COOLDOWN_S, ages[g] + d)]

DetInit ==
    /\ AppStateInit
    /\ ed = EdOff
    /\ mw = MwOff
    /\ life = LifeOff
    /\ link = LinkOff
    /\ post = PostOff
    /\ \E hand \in Hands, gap \in FrameGaps :
        det = [on                 |-> TRUE,
               hand               |-> hand,
               gap                |-> gap,
               n                  |-> 0,
               changes            |-> 0,
               buffer             |-> <<>>,
               cooldowns          |-> NeverFired,
               pinch_was_open     |-> FALSE,
               peace_was_inactive |-> TRUE,
               \* the event of the last frame and what detect skipped
               emitted            |-> NoGesture,
               skipped            |-> {},
               \* history: the last frame had no hand; hand frames since
               \* then (up to MIN_FRAMES_FOR_DETECTION)
               handless           |-> FALSE,
               pushed             |-> 0,
               \* history: time since the last event of each gesture, as it
               \* was when the last frame arrived and as it is now
               age0               |-> [g \in ALL_GESTURES |-> -1],
               age                |-> [g \in ALL_GESTURES |-> -1],
               \* history: some frame had thumb and index apart
               seenOpen           |-> FALSE,
               \* history: TOGGLE_PLAYBACK was emitted and every frame
               \* after it had thumb and index together; the same one
               \* frame earlier
               held0              |-> FALSE,
               held               |-> FALSE,
               \* history: "none" before the first SWITCH_STAFF, then "held"
               \* until a hand frame without the peace sign, then
               \* "released"; the same one frame earlier
               hold0              |-> "none",
               hold               |-> "none",
               \* history: the hand frames in a row, up to the last one,
               \* that show the peace sign (up to MIN_FRAMES_FOR_DETECTION),
               \* and whether SWITCH_STAFF was emitted on one of them
               run                |-> 0,
               reported           |-> FALSE]

\* main.py, a frame in which the tracker found a hand
HandFrame(f) ==
    /\ UNCHANGED <<serverVars, ed, mw, life, link, post>>
    /\ det.on
    /\ det.n < MaxFrames
    /\ f \in det.hand
    /\ LET d      == det.gap
           change == det.buffer # <<>> /\ det.buffer[Len(det.buffer)] # f
       IN  change => det.changes < MaxChanges
    /\ LET d      == det.gap
           change == det.buffer # <<>> /\ det.buffer[Len(det.buffer)] # f
           buffer == push(det.buffer, f)
           r      == detect(buffer, f.fingers,
                            [cooldowns          |-> elapse(det.cooldowns, d),
                             pinch_was_open     |-> det.pinch_was_open,
                             peace_was_inactive |-> det.peace_was_inactive])
           age0   == since_event(det.age, d)
           closed == f.dist < PINCH_DISTANCE_THRESHOLD
           hold1  == IF det.hold = "held" /\ ~peace_sign(f.fingers)
                     THEN "released" ELSE det.hold
       IN  det' = [det EXCEPT
                    !.n                  = det.n + 1,
                    !.changes            = IF change THEN det.changes + 1 ELSE det.changes,
                    !.buffer             = buffer,
                    !.cooldowns          = r.cooldowns,
                    !.pinch_was_open     = r.pinch_was_open,
                    !.peace_was_inactive = r.peace_was_inactive,
                    !.emitted            = r.gesture,
                    !.skipped            = r.skipped,
                    !.handless           = FALSE,
                    !.pushed             = Min(MIN_FRAMES_FOR_DETECTION, det.pushed + 1),
                    !.age0               = age0,
                    !.age                = IF r.gesture = NoGesture THEN age0
                                           ELSE [age0 EXCEPT ![r.gesture] = 0],
                    !.seenOpen           = det.seenOpen \/ f.dist >= PINCH_OPEN_THRESHOLD,
                    !.held0              = det.held /\ closed,
                    !.held               = \/ r.gesture = GESTURE_TOGGLE_PLAYBACK
                                           \/ det.held /\ closed,
                    !.hold0              = hold1,
                    !.hold               = IF r.gesture = GESTURE_SWITCH_STAFF
                                           THEN "held" ELSE hold1,
                    !.run                = IF peace_sign(f.fingers)
                                           THEN Min(MIN_FRAMES_FOR_DETECTION, det.run + 1)
                                           ELSE 0,
                    !.reported           = /\ peace_sign(f.fingers)
                                           /\ \/ det.reported
                                              \/ r.gesture = GESTURE_SWITCH_STAFF]

\* main.py, a frame without a hand
NoHandFrame ==
    /\ UNCHANGED <<serverVars, ed, mw, life, link, post>>
    /\ det.on
    /\ det.n < MaxFrames
    /\ det' = [det EXCEPT
                !.n         = det.n + 1,
                !.changes   = 0,
                !.buffer    = clear(det.buffer),
                !.cooldowns = elapse(det.cooldowns, det.gap),
                !.emitted   = NoGesture,
                !.skipped   = {},
                !.handless  = TRUE,
                !.pushed    = 0,
                !.age0      = since_event(det.age, det.gap),
                !.age       = since_event(det.age, det.gap),
                !.held0     = FALSE,
                !.held      = FALSE,
                !.hold0     = det.hold,
                !.run       = 0,
                !.reported  = FALSE]

DetNext ==
    \/ \E f \in UNION Hands : HandFrame(f)
    \/ NoHandFrame

DetectorSpec == DetInit /\ [][DetNext]_vars

\* ------------------------------------------------- the POST worker threads
\*
\* main.py starts one daemon thread per gesture event; the thread posts the
\* event to POST /gestures, and receive_gesture maps and executes it before
\* its first suspension.  `post` is a record
\*   sent       the gestures the capture loop has emitted, in detection order
\*   flying     the events (indices of sent) whose thread has not posted yet
\*   executed   the events whose command the server has executed, in order
\*   notes, cursor   the server's sequence and cursor

\* Gesture events emitted in a run.
MaxPosts == 3

PostInit ==
    /\ AppStateInit
    /\ ed = EdOff
    /\ det = DetOff
    /\ mw = MwOff
    /\ life = LifeOff
    /\ link = LinkOff
    /\ post = [on |-> TRUE, sent |-> <<>>, flying |-> {}, executed |-> <<>>,
               notes |-> << Note("C4", 8, 0, "quarter", 0),
                            Note("E4", 8, 8, "quarter", 0) >>,
               cursor |-> 0]

\* _emit_json: the event is written to stdout and its thread is started.
PostEmit(g) ==
    /\ post.on
    /\ Len(post.sent) < MaxPosts
    /\ post' = [post EXCEPT !.sent = Append(@, g),
                            !.flying = @ \cup {Len(post.sent) + 1}]
    /\ UNCHANGED <<serverVars, ed, det, mw, life, link>>

\* The request of thread i reaches the server: receive_gesture runs the
\* command on the server's editor.
PostArrives(i) ==
    /\ post.on
    /\ i \in post.flying
    /\ LET command == map_gesture(post.sent[i])
           r == IF command \in {NoCommand, "toggle_playback"}
                THEN Ed(post.notes, post.cursor)
                ELSE LET x == execute(command, post.notes, post.cursor)
                     IN  Ed(x.notes, x.cursor)
       IN  post' = [post EXCEPT !.flying = @ \ {i},
                                !.executed = Append(@, i),
                                !.notes = r.notes,
                                !.cursor = r.cursor]
    /\ UNCHANGED <<serverVars, ed, det, mw, life, link>>

\* The request of thread i does not reach the server (no server, or the
\* 0.5 s timeout): the exception is swallowed and the event is dropped.
PostFails(i) ==
    /\ post.on
    /\ i \in post.flying
    /\ post' = [post EXCEPT !.flying = @ \ {i}]
    /\ UNCHANGED <<serverVars, ed, det, mw, life, link>>

PostNext ==
    \/ \E g \in ALL_GESTURES : PostEmit(g)
    \/ \E i \in 1..MaxPosts : PostArrives(i)
    \/ \E i \in 1..MaxPosts : PostFails(i)

PostSpec == PostInit /\ [][PostNext]_vars

\* ------------------------------------------ Composition Apps and the server
\*
\* The windows of app.py connected to the server: a local edit is synced by a
\* blocking PUT /sequence, the server broadcasts to every connected app, and
\* an app handles a frame when its GUI thread is free.  On the server side a
\* request is handled in one step and its frames are queued for every
\* connected app in that step.  `link` is a record
\*   sv      the server's sequence (notes, key) and cursor
\*   conn    the apps whose WebSocket is registered
\*   app     per app: the window w, the sequence's key, the key-cycle memory
\*           (origin, base; base holds -1 for None) and, as history, the
\*           number of key cycles since the last other edit with the pitch
\*           indices (b0) and the key (key0) before the first of them, and
\*           the calls of _on_sequence_changed in the last handler (changes)
\*   queue   per app: the frames sent to it and not yet handled
\*   put     per app: the PUT /sequence the GUI thread is blocked in, if any
\*   puts    per app: the PUT requests sent so far
\*   n       inputs so far (keys, gestures, speech edits)
\*   event   the last step: its kind, its app, and for a handled frame the
\*           frame
\* A frame and a PUT body carry, as history, the app whose local edit caused
\* them (by, 0 for none), the editor cursor after that edit (k) and whether
\* the edit was a key cycle.

Apps == {1, 2}

\* Inputs in a run.
MaxLinkEvents == 2

\* sorted(KEY_SIGNATURES.keys(), key=lambda k: (k.endswith("m"), k))
sorted_keys ==
    << "A", "Ab", "B", "Bb", "C", "D", "Db", "E", "Eb", "F", "F#", "G", "Gb",
       "Am", "Bbm", "Bm", "C#m", "Cm", "D#m", "Dm", "Ebm", "Em", "F#m", "Fm",
       "G#m", "Gm" >>

\* _tonic_index(_key_tonic(key))
tonic_index(key) ==
    CASE key \in {"C", "Cm"}          -> 0
      [] key \in {"Db", "C#m"}        -> 1
      [] key \in {"D", "Dm"}          -> 2
      [] key \in {"Eb", "Ebm", "D#m"} -> 3
      [] key \in {"E", "Em"}          -> 4
      [] key \in {"F", "Fm"}          -> 5
      [] key \in {"F#", "Gb", "F#m"}  -> 6
      [] key \in {"G", "Gm"}          -> 7
      [] key \in {"Ab", "G#m"}        -> 8
      [] key \in {"A", "Am"}          -> 9
      [] key \in {"Bb", "Bbm"}        -> 10
      [] key \in {"B", "Bm"}          -> 11

reset_key_cycle_memory(p) ==
    [p EXCEPT !.origin = p.key,
              !.base = [i \in 1..Len(p.w.notes) |-> pitch_index(p.w.notes[i])]]

\* _cycle_key_signature up to its call of _sync_sequence_to_server.
cycle_key_signature(p) ==
    LET current_idx == (CHOOSE i \in 1..Len(sorted_keys) : sorted_keys[i] = p.key) - 1
        new_key == sorted_keys[((current_idx + 1) % Len(sorted_keys)) + 1]
        q == IF Len(p.base) # Len(p.w.notes) THEN reset_key_cycle_memory(p) ELSE p
        semitone_shift == (tonic_index(new_key) - tonic_index(q.origin)) % 12
        notes == [i \in 1..Len(q.w.notes) |->
                    IF q.base[i] = -1 THEN q.w.notes[i]
                    ELSE [q.w.notes[i] EXCEPT !.pitch =
                            PITCH_ORDER[Max(0, Min(Len(PITCH_ORDER) - 1,
                                                   q.base[i] + semitone_shift)) + 1]]]
    IN  [q EXCEPT !.w = on_sequence_changed([q.w EXCEPT !.notes = notes]),
                  !.key = new_key]

\* The emissions of sequence_changed by a command of the editor.
sequence_changes(command, notes, cur) ==
    LET emitted == app_signals(command, notes, cur)
    IN  Cardinality({i \in 1..Len(emitted) : emitted[i].signal = "sequence_changed"})

\* Fault: _suppress_server_sync is not read.
sync_sequence_to_server_always(suppress_server_sync, changes) == changes

\* The PUT requests _sync_sequence_to_server sends for the calls of
\* _on_sequence_changed.
sync_sequence_to_server(suppress_server_sync, changes) ==
    IF suppress_server_sync THEN 0 ELSE changes

\* _on_sequence_changed after a command of the editor: the key-cycle memory
\* is reset; as history, so are the consecutive key cycles.
edited(p, w, changes) ==
    IF changes = 0 THEN [p EXCEPT !.w = w, !.changes = 0]
    ELSE [reset_key_cycle_memory([p EXCEPT !.w = w]) EXCEPT !.cycles = 0,
                                                           !.changes = changes]

\* keyPressEvent for the keys of the link model.
link_key(p, key) ==
    IF key = "K"
    THEN [cycle_key_signature(p) EXCEPT
              !.changes = 1,
              !.cycles = p.cycles + 1,
              !.b0 = IF p.cycles = 0
                     THEN [i \in 1..Len(p.w.notes) |-> pitch_index(p.w.notes[i])]
                     ELSE p.b0,
              !.key0 = IF p.cycles = 0 THEN p.key ELSE p.key0]
    ELSE LET command == CASE key = "Up" -> "pitch_up"
                          [] key = "Right" -> "move_right"
         IN  edited(p, keyPressEvent(p.w, key),
                    sequence_changes(command, p.w.notes, p.w.cursor))

\* _on_remote_sequence
link_remote_sequence(p, frame, own_cycle) ==
    IF Len(frame.notes) = 0 THEN [p EXCEPT !.changes = 0]
    ELSE reset_key_cycle_memory(
             [p EXCEPT !.w = on_remote_sequence(p.w, frame.notes),
                       !.key = frame.key,
                       !.changes = 0,
                       !.cycles = IF own_cycle THEN @ ELSE 0])

\* _on_remote_command
link_remote_command(p, command) ==
    edited(p, on_remote_command(p.w, command),
           IF command \in {"toggle_playback", "switch_edit_staff"} THEN 0
           ELSE sequence_changes(command, p.w.notes, p.w.cursor))

LinkFrame(type, command, notes, key, by, k, cycle) ==
    [type |-> type, command |-> command, notes |-> notes, key |-> key,
     by |-> by, k |-> k, cycle |-> cycle]

\* AppState.broadcast: the frame is queued for every registered app.
link_broadcast(queue, conn, frame) ==
    [a \in Apps |-> IF conn[a] THEN Append(queue[a], frame) ELSE queue[a]]

\* Sequences an app starts with or the LLM answers.
LinkSequences ==
    { <<>>,
      << Note("D4", 8, 0, "quarter", 0), Note("G4", 8, 8, "quarter", 0) >> }

LinkInit ==
    /\ AppStateInit
    /\ ed = EdOff
    /\ det = DetOff
    /\ mw = MwOff
    /\ life = LifeOff
    /\ post = PostOff
    /\ \E start \in [Apps -> LinkSequences] :
          link = [on |-> TRUE, n |-> 0,
                  sv |-> [notes |-> <<>>, key |-> "C", cursor |-> 0],
                  conn |-> [a \in Apps |-> FALSE],
                  app |-> [a \in Apps |->
                             reset_key_cycle_memory(
                                 [w |-> [notes |-> start[a], cursor |-> 0,
                                         edit_cursors |-> <<0, 0>>, slot |-> 0,
                                         focus |-> 0, playback |-> 0, start |-> 0,
                                         playing |-> FALSE, snapshot |-> 0],
                                  key |-> "C", origin |-> "C", base |-> <<>>,
                                  cycles |-> 0, b0 |-> <<>>, key0 |-> "C",
                                  changes |-> 0])],
                  queue |-> [a \in Apps |-> <<>>],
                  put |-> [a \in Apps |-> <<>>],
                  puts |-> [a \in Apps |-> 0],
                  event |-> [kind |-> "", app |-> 0]]

\* The PUT body of app a after a handler that called _on_sequence_changed.
link_put(p, a, requests, cycle) ==
    IF requests = 0 THEN <<>>
    ELSE << [notes |-> p.w.notes, key |-> p.key, by |-> a, k |-> p.w.cursor,
             cycle |-> cycle] >>

\* The WebSocket of app a is accepted: the server registers it and sends it
\* the sequence; the app handles connected by a PUT of its own sequence.
LinkConnect(a) ==
    /\ link.on
    /\ ~link.conn[a]
    /\ link.put[a] = <<>>
    /\ LET requests == sync_sequence_to_server(FALSE, 1)
       IN  link' = [link EXCEPT
               !.conn[a] = TRUE,
               !.queue[a] = Append(@, LinkFrame("sequence_update", "", link.sv.notes,
                                                link.sv.key, 0, 0, FALSE)),
               !.put[a] = link_put(link.app[a], 0, requests, FALSE),
               !.puts[a] = @ + requests,
               !.event = [kind |-> "connect", app |-> a]]
    /\ UNCHANGED <<serverVars, ed, det, mw, life, post>>

\* A key is pressed in app a (the model's user types in app 1); a change of
\* the sequence is synced.
LinkKey(a, key) ==
    /\ link.on
    /\ link.n < MaxLinkEvents
    /\ link.put[a] = <<>>
    /\ LET p == link_key(link.app[a], key)
           requests == sync_sequence_to_server(FALSE, p.changes)
       IN  link' = [link EXCEPT
               !.n = @ + 1,
               !.app[a] = p,
               !.put[a] = link_put(p, a, requests, key = "K"),
               !.puts[a] = @ + requests,
               !.event = [kind |-> "key", app |-> a]]
    /\ UNCHANGED <<serverVars, ed, det, mw, life, post>>

\* put_sequence: the sequence is replaced, the cursor reset, the new
\* sequence broadcast and the request answered.
LinkServerPut(a) ==
    /\ link.on
    /\ link.put[a] # <<>>
    /\ LET body == link.put[a][1]
       IN  link' = [link EXCEPT
               !.sv = [notes |-> body.notes, key |-> body.key,
                       cursor |-> replace_cursor(link.sv.cursor)],
               !.queue = link_broadcast(@, link.conn,
                             LinkFrame("sequence_update", "", body.notes, body.key,
                                       body.by, body.k, body.cycle)),
               !.put[a] = <<>>,
               !.event = [kind |-> "put", app |-> a]]
    /\ UNCHANGED <<serverVars, ed, det, mw, life, post>>

\* receive_gesture
LinkServerGesture(g) ==
    /\ link.on
    /\ link.n < MaxLinkEvents
    /\ LET command == map_gesture(g)
           r == execute(command, link.sv.notes, link.sv.cursor)
       IN  link' = IF command = "toggle_playback"
                   THEN [link EXCEPT
                            !.n = @ + 1,
                            !.queue = link_broadcast(@, link.conn,
                                          LinkFrame("command", command, <<>>, "", 0, 0, FALSE)),
                            !.event = [kind |-> "gesture", app |-> 0]]
                   ELSE [link EXCEPT
                            !.n = @ + 1,
                            !.sv.notes = r.notes,
                            !.sv.cursor = r.cursor,
                            !.queue = IF r.known
                                      THEN link_broadcast(@, link.conn,
                                               LinkFrame("command", command, <<>>, "", 0,
                                                         0, FALSE))
                                      ELSE @,
                            !.event = [kind |-> "gesture", app |-> 0]]
    /\ UNCHANGED <<serverVars, ed, det, mw, life, post>>

\* receive_speech with the LLM's answer out.
LinkServerSpeech(out) ==
    /\ link.on
    /\ link.n < MaxLinkEvents
    /\ link' = [link EXCEPT
            !.n = @ + 1,
            !.sv.notes = out,
            !.sv.cursor = replace_cursor(link.sv.cursor),
            !.queue = link_broadcast(@, link.conn,
                          LinkFrame("sequence_update", "", out, link.sv.key, 0, 0, FALSE)),
            !.event = [kind |-> "speech", app |-> 0]]
    /\ UNCHANGED <<serverVars, ed, det, mw, life, post>>

\* The GUI thread of app a handles the next frame: _on_remote_sequence or
\* _on_remote_command, with _suppress_server_sync set.
LinkAppFrame(a) ==
    /\ link.on
    /\ link.put[a] = <<>>
    /\ link.queue[a] # <<>>
    /\ LET frame == Head(link.queue[a])
           before == link.app[a]
           p == IF frame.type = "sequence_update"
                THEN link_remote_sequence(before, frame, frame.by = a /\ frame.cycle)
                ELSE link_remote_command(before, frame.command)
           requests == sync_sequence_to_server(TRUE, p.changes)
       IN  link' = [link EXCEPT
               !.app[a] = p,
               !.queue[a] = Tail(@),
               !.put[a] = link_put(p, 0, requests, FALSE),
               !.puts[a] = @ + requests,
               !.event = [kind |-> "frame", app |-> a, frame |-> frame]]
    /\ UNCHANGED <<serverVars, ed, det, mw, life, post>>

LinkNext ==
    \/ \E a \in Apps : LinkConnect(a)
    \/ \E key \in {"Up", "Right", "K"} : LinkKey(1, key)
    \/ \E a \in Apps : LinkServerPut(a)
    \/ \E g \in {"PITCH_UP", "TOGGLE_PLAYBACK"} : LinkServerGesture(g)
    \/ \E out \in LinkSequences : LinkServerSpeech(out)
    \/ \E a \in Apps : LinkAppFrame(a)

LinkSpec == LinkInit /\ [][LinkNext]_vars

\* ----------------------------------------------------------------- claims

\* GET /sequence.
get_sequence == [sequence |-> objs[seqId], cursor |-> cursor]

\* Handler h, waiting for the LLM, installs its result in this step.
SpeechInstalls(h) ==
    /\ req[h].pc = "llm"
    /\ req'[h].pc # "llm"
    /\ seqId' # seqId

\* A POST /gestures is received by handler h in this step.
GestureStarts(h) ==
    /\ ready
    /\ req[h].pc = "idle"
    /\ \/ req'[h].pc = "send" /\ req'[h].kind = "gesture"
       \/ returned'.h = h /\ returned'.kind = "gesture"

\* What the handler that started in this step holds: its record while it is
\* suspended in its broadcast, its return otherwise.
Started(h) == IF req'[h].pc = "send" THEN req'[h] ELSE returned'

\* C1: a /speech request with range [a..b] that is answered ok installs a
\* sequence with as many notes as the canonical sequence had immediately
\* before the install, and equal to it at every index outside [a..b].
C1_RangeScopedInstall ==
    [][\A h \in Handlers :
         (SpeechInstalls(h) /\ req[h].sel # <<>>) =>
            LET S  == objs[seqId]
                S2 == objs'[seqId']
            IN  /\ Len(S) = Len(S2)
                /\ \A i \in 0..(Len(S) - 1) :
                     ~(req[h].sel[1] <= i /\ i <= req[h].sel[2]) => S2[i + 1] = S[i + 1]
      ]_vars

\* C2: /speech is linearizable with the other mutating requests: the
\* sequence its result was computed from (the JSON sent to the LLM) is the
\* canonical sequence at the moment the result is installed, so that no
\* mutation applied while the handler waited for the LLM is overwritten.
C2_SpeechInstallLinearizable ==
    [][\A h \in Handlers : SpeechInstalls(h) => req[h].snap = objs[seqId]]_vars

\* C3: every subscriber receives the broadcast frames in the order in which
\* the server applied their mutations.
C3_FanOutOrder ==
    \A s \in Sockets : \A i, j \in 1..Len(inbox[s]) :
        (i < j /\ inbox[s][i].fid > 0 /\ inbox[s][j].fid > 0)
            => inbox[s][i].fid < inbox[s][j].fid

\* C4: the first frame a client receives is the initial sequence_update of
\* its own connection, never a broadcast frame of another handler.
C4_InitialFrameFirst ==
    \A s \in Sockets :
        inbox[s] # <<>> =>
            /\ inbox[s][1].fid = 0
            /\ inbox[s][1].msg.type = "sequence_update"

\* C5: a broadcast attempts a send to every subscriber that is registered
\* when it starts and is still registered when it ends.
C5_BroadcastReachesAll ==
    [][\A h \in Handlers :
         (req[h].pc = "send" /\ req'[h].pc = "idle") =>
            (req[h].start \cap Range(clients)) \subseteq req[h].attempted
      ]_vars

\* C6: a broadcast unregisters at its end exactly the subscribers whose send
\* failed; a failed send is followed by the send to the next subscriber of
\* the list; the request is answered ok.
C6_FailedSendUnregistersDeadOnly ==
    [][\A h \in Handlers :
         (req[h].pc = "send" /\ req'[h] # req[h]) =>
            LET ws   == req[h].target
                dead == Range(req[h].stale) \cup (IF sock[ws].alive THEN {} ELSE {ws})
            IN  IF req[h].idx < Len(clients)
                THEN /\ req'[h].pc = "send"
                     /\ req'[h].target = clients[req[h].idx + 1]
                     /\ clients' = clients
                ELSE /\ Range(clients') = Range(clients) \ dead
                     /\ returned'.h = h
                     /\ returned'.resp.status = "ok"
      ]_vars

\* A broadcast has ended in which one send failed and another succeeded.
C6_Witness ==
    /\ returned.fid > 0
    /\ \E x, y \in Sockets :
         /\ sock[x].pc = "recv" /\ ~sock[x].alive /\ x \notin Range(clients)
         /\ y \in Range(clients)
         /\ \E i \in 1..Len(inbox[y]) : inbox[y][i].fid = returned.fid

\* C7: a request answered with status error or ignored leaves the canonical
\* sequence and cursor as they were and sends no frame: neither the step in
\* which its handler returns nor, for /speech, the step in which it starts
\* to wait for the LLM changes the canonical state or delivers a frame, and
\* the handler has started no broadcast.
C7_RejectedRequestHasNoEffect ==
    [][(\/ returned'.resp.status \in {"error", "ignored"}
        \/ \E h \in Handlers : req[h].pc = "idle" /\ req'[h].pc = "llm") =>
          /\ returned'.fid = 0
          /\ seqId' = seqId
          /\ objs'[seqId] = objs[seqId]
          /\ cursor' = cursor
          /\ inbox' = inbox
          /\ clients' = clients
          /\ nbcast' = nbcast
      ]_vars

\* The strict range check has rejected an LLM answer with another note count.
C7_Witness ==
    /\ returned.kind = "speech"
    /\ returned.resp.status = "error"
    /\ returned.resp.reason = "strict selection mode requires unchanged total note count"

\* C8: the editor cursor is within [0, len(notes) - 1], or 0 on an empty
\* sequence.
C8_CursorInRange ==
    IF Len(objs[seqId]) = 0
    THEN cursor = 0
    ELSE 0 <= cursor /\ cursor <= Len(objs[seqId]) - 1

\* delete_note has removed the last note of a two-note sequence.
C8_Witness ==
    /\ returned.kind = "gesture"
    /\ returned.command = "delete_note"
    /\ returned.resp.status = "ok"
    /\ nbcast = MaxEvents
    /\ Len(objs[seqId]) = 1
    /\ cursor = 0

\* The commands the table maps a label other than TOGGLE_PLAYBACK to.
MappedEditorCommands ==
    {GESTURE_TO_COMMAND(g) : g \in GestureLabels} \ {"toggle_playback"}

\* C9: a gesture of the table other than TOGGLE_PLAYBACK is executed and
\* broadcast as {type: command, command, cursor} with the cursor the editor
\* has after the command, and GET /sequence shows the cursor.
C9_TableGestureIsBroadcast ==
    [][\A h \in Handlers :
         (GestureStarts(h) /\ Started(h).command \in MappedEditorCommands) =>
            /\ Started(h).fid > 0
            /\ Started(h).frame = [type |-> "command",
                                   command |-> Started(h).command,
                                   cursor |-> get_sequence.cursor']
      ]_vars

\* C10: a gesture that maps to toggle_playback broadcasts
\* {type: command, command: toggle_playback} and changes neither the
\* canonical sequence nor the cursor, in any step of its handler.
C10_TogglePlaybackForwardedOnly ==
    [][\A h \in Handlers :
         /\ (GestureStarts(h) /\ Started(h).command = "toggle_playback") =>
               /\ Started(h).fid > 0
               /\ Started(h).frame = [type |-> "command", command |-> "toggle_playback"]
               /\ UNCHANGED <<objs, seqId, cursor>>
         /\ (req[h].pc = "send" /\ req[h].command = "toggle_playback" /\ req'[h] # req[h]) =>
               /\ UNCHANGED <<objs, seqId, cursor>>
               /\ \A s \in Sockets :
                    inbox'[s] # inbox[s] =>
                       inbox'[s] = Append(inbox[s],
                           [fid |-> req[h].fid,
                            msg |-> [type |-> "command", command |-> "toggle_playback"]])
      ]_vars

\* A subscriber has received a toggle_playback frame.
C10_Witness ==
    \E s \in Sockets : \E i \in 1..Len(inbox[s]) :
        inbox[s][i].msg = [type |-> "command", command |-> "toggle_playback"]

\* C11 (as stated): map_gesture gives each label of the table the command
\* the table lists, a lowercase known command name itself, a label in
\* capitals that is not in the table the lowercase form when that is a known
\* command, and every other label no command.
C11_MapGestureAsStated ==
    LET g == ed.label
        capitals == [MOVE_LEFT |-> "move_left", MOVE_RIGHT |-> "move_right",
                     SWITCH_EDIT_STAFF |-> "switch_edit_staff", WAVE |-> "wave"]
        known == {"move_left", "move_right", "pitch_up", "pitch_down", "delete_note",
                  "add_note", "toggle_instrument", "split_note", "merge_note",
                  "make_rest", "toggle_playback", "switch_edit_staff"}
        table == [PITCH_UP |-> "pitch_up", PITCH_DOWN |-> "pitch_down",
                  TOGGLE_PLAYBACK |-> "toggle_playback", SCROLL_FORWARD |-> "move_right",
                  SCROLL_BACKWARD |-> "move_left", SWITCH_STAFF |-> "switch_edit_staff",
                  ADD_NOTE |-> "add_note", DELETE_NOTE |-> "delete_note",
                  TOGGLE_INSTRUMENT |-> "switch_edit_staff", SPLIT_NOTE |-> "split_note",
                  MERGE_NOTE |-> "merge_note", MAKE_REST |-> "make_rest"]
    IN  (ed.on /\ ed.n > 0) =>
            ed.command =
                IF g \in DOMAIN table THEN table[g]
                ELSE IF g \in known THEN g
                ELSE IF g \in DOMAIN capitals /\ capitals[g] \in known THEN capitals[g]
                ELSE NoCommand

\* C11 (amended): as stated, but the lowercase form is taken of every label
\* that is neither in the table nor a known command name, whatever its case.
C11_MapGesture ==
    LET g == ed.label
        lowercase == [MOVE_LEFT |-> "move_left", MOVE_RIGHT |-> "move_right",
                      SWITCH_EDIT_STAFF |-> "switch_edit_staff", WAVE |-> "wave",
                      Pitch_Up |-> "pitch_up"]
        known == {"move_left", "move_right", "pitch_up", "pitch_down", "delete_note",
                  "add_note", "toggle_instrument", "split_note", "merge_note",
                  "make_rest", "toggle_playback", "switch_edit_staff"}
        table == [PITCH_UP |-> "pitch_up", PITCH_DOWN |-> "pitch_down",
                  TOGGLE_PLAYBACK |-> "toggle_playback", SCROLL_FORWARD |-> "move_right",
                  SCROLL_BACKWARD |-> "move_left", SWITCH_STAFF |-> "switch_edit_staff",
                  ADD_NOTE |-> "add_note", DELETE_NOTE |-> "delete_note",
                  TOGGLE_INSTRUMENT |-> "switch_edit_staff", SPLIT_NOTE |-> "split_note",
                  MERGE_NOTE |-> "merge_note", MAKE_REST |-> "make_rest"]
    IN  (ed.on /\ ed.n > 0) =>
            ed.command =
                IF g \in DOMAIN table THEN table[g]
                ELSE IF g \in known THEN g
                ELSE IF g \in DOMAIN lowercase /\ lowercase[g] \in known THEN lowercase[g]
                ELSE NoCommand

\* A label in capitals outside the table has been mapped to its lowercase form.
C11_Witness ==
    ed.on /\ ed.n > 0 /\ ed.label = "MOVE_LEFT" /\ ed.command = "move_left"

\* C12: every command string the app editor accepts is known to the server
\* editor and, from the same (sequence, cursor), leaves the same
\* (sequence, cursor) on both.
C12_EditorsAgree ==
    (/\ ed.on
     /\ ed.n > 0
     /\ ed.command \in {"move_left", "move_right", "pitch_up", "pitch_down",
                        "delete_note", "add_note", "toggle_instrument",
                        "split_note", "merge_note", "make_rest"})
        => ed.srvKnown /\ ed.srvSame = ed.app

\* C13: on a current note that is not a rest and is neither C4 nor B5,
\* pitch_up then pitch_down, and pitch_down then pitch_up, leave the
\* (sequence, cursor) of the app editor and of the server editor as it was.
C13_PitchUpDownIdentity ==
    (/\ ed.on
     /\ ed.n >= 2
     /\ <<ed.command1, ed.command>> \in {<<"pitch_up", "pitch_down">>,
                                         <<"pitch_down", "pitch_up">>})
        => /\ (/\ has_current_note(ed.appStart.notes, ed.appStart.cursor)
               /\ ed.appStart.notes[ed.appStart.cursor + 1].pitch \notin {"REST", "C4", "B5"})
                  => ed.app = ed.appStart
           /\ (/\ has_current_note(ed.srvStart.notes, ed.srvStart.cursor)
               /\ ed.srvStart.notes[ed.srvStart.cursor + 1].pitch \notin {"REST", "C4", "B5"})
                  => ed.srv = ed.srvStart

\* pitch_up then pitch_down has gone from A#5 over B5 back to A#5.
C13_Witness ==
    /\ ed.on
    /\ ed.n = 2
    /\ ed.command1 = "pitch_up" /\ ed.command = "pitch_down"
    /\ ed.appStart.notes # <<>>
    /\ ed.appStart.notes[ed.appStart.cursor + 1].pitch = "A#5"
    /\ ed.appPrev.notes[ed.appPrev.cursor + 1].pitch = "B5"
    /\ ed.app = ed.appStart
    /\ ed.srv = ed.srvStart

\* C14 (as stated): on a current note of duration > 0.25, split_note then
\* merge_note restores the number of notes, the cursor, and the pitch, beat,
\* duration and instrument of every note, and the note_type of the current
\* note when its duration is 4, 2, 1 or 0.5 beats.
C14_SplitMergeAsStated ==
    (/\ ed.on
     /\ ed.n >= 2
     /\ ed.command1 = "split_note" /\ ed.command = "merge_note"
     /\ has_current_note(ed.appStart.notes, ed.appStart.cursor)
     /\ ed.appStart.notes[ed.appStart.cursor + 1].duration > 2)
        => LET before == ed.appStart.notes
               after  == ed.app.notes
               c      == ed.appStart.cursor + 1
           IN  /\ ed.app.cursor = ed.appStart.cursor
               /\ Len(after) = Len(before)
               /\ \A i \in 1..Len(before) :
                    /\ after[i].pitch = before[i].pitch
                    /\ after[i].beat = before[i].beat
                    /\ after[i].duration = before[i].duration
                    /\ after[i].instrument = before[i].instrument
               /\ before[c].duration \in {32, 16, 8, 4}
                    => after[c].note_type = before[c].note_type

\* C14 (amended): as stated, with the note_type restored when the duration
\* is 4, 2, 1 or 0.5 beats and the note_type was the name of that duration
\* (whole, half, quarter, eighth).
C14_SplitMerge ==
    (/\ ed.on
     /\ ed.n >= 2
     /\ ed.command1 = "split_note" /\ ed.command = "merge_note"
     /\ has_current_note(ed.appStart.notes, ed.appStart.cursor)
     /\ ed.appStart.notes[ed.appStart.cursor + 1].duration > 2)
        => LET before == ed.appStart.notes
               after  == ed.app.notes
               c      == ed.appStart.cursor + 1
           IN  /\ ed.app.cursor = ed.appStart.cursor
               /\ Len(after) = Len(before)
               /\ \A i \in 1..Len(before) :
                    /\ after[i].pitch = before[i].pitch
                    /\ after[i].beat = before[i].beat
                    /\ after[i].duration = before[i].duration
                    /\ after[i].instrument = before[i].instrument
               /\ <<before[c].duration, before[c].note_type>> \in
                        {<<32, "whole">>, <<16, "half">>, <<8, "quarter">>, <<4, "eighth">>}
                    => after[c].note_type = before[c].note_type

\* A half note has been split into two quarters and merged back.
C14_Witness ==
    /\ ed.on
    /\ ed.n = 2
    /\ ed.command1 = "split_note" /\ ed.command = "merge_note"
    /\ ed.appStart.notes # <<>>
    /\ ed.appStart.notes[ed.appStart.cursor + 1].duration = 16
    /\ Len(ed.appPrev.notes) = Len(ed.appStart.notes) + 1
    /\ ed.appPrev.notes[ed.appPrev.cursor + 1].note_type = "quarter"
    /\ ed.app = ed.appStart

\* C15: pitch_up (pitch_down) on a rest at the cursor makes it the pitch one
\* step above (below) the seed in PITCH_ORDER, clamped at B5 (C4), and
\* changes nothing else; the seed is the pitch of the nearest pitched note
\* before the cursor, else of the nearest pitched note after it, else C4.
\* Hence make_rest then pitch_up gives the pitch one step above the seed
\* that the notes around the cursor give.
C15_RestSeed ==
    LET notes  == ed.appPrev.notes
        c      == ed.appPrev.cursor + 1
        prior  == {i \in 1..(c - 1) : notes[i].pitch # "REST"}
        later  == {i \in (c + 1)..Len(notes) : notes[i].pitch # "REST"}
        last   == CHOOSE i \in prior : \A k \in prior : k <= i
        first  == CHOOSE i \in later : \A k \in later : i <= k
        seedP  == IF prior # {} THEN notes[last].pitch
                  ELSE IF later # {} THEN notes[first].pitch
                  ELSE "C4"
        seed   == CHOOSE i \in 1..Len(PITCH_ORDER) : PITCH_ORDER[i] = seedP
        up     == IF seed = Len(PITCH_ORDER) THEN "B5" ELSE PITCH_ORDER[seed + 1]
        down   == IF seed = 1 THEN "C4" ELSE PITCH_ORDER[seed - 1]
    IN  (/\ ed.on
         /\ ed.n > 0
         /\ ed.command \in {"pitch_up", "pitch_down"}
         /\ has_current_note(notes, ed.appPrev.cursor)
         /\ notes[c].pitch = "REST")
            => /\ ed.app.cursor = ed.appPrev.cursor
               /\ ed.app.notes =
                    [notes EXCEPT ![c].pitch = IF ed.command = "pitch_up" THEN up ELSE down]
               /\ (/\ ed.n >= 2
                   /\ ed.command1 = "make_rest"
                   /\ ed.command = "pitch_up")
                      => \A i \in 1..Len(notes) :
                            i # c => ed.appStart.notes[i] = notes[i]

\* pitch_up on the rest between D4 and G4 has made it D#4.
C15_Witness ==
    /\ ed.on
    /\ ed.n > 0
    /\ ed.command = "pitch_up"
    /\ Len(ed.appPrev.notes) = 3
    /\ ed.appPrev.cursor = 1
    /\ ed.appPrev.notes[1].pitch = "D4"
    /\ ed.appPrev.notes[2].pitch = "REST"
    /\ ed.appPrev.notes[3].pitch = "G4"
    /\ ed.app.notes[2].pitch = "D#4"

\* C16: two successive events of one gesture are at least
\* GESTURE_COOLDOWN_S apart, and detect skips a detector's result only when
\* an event of that same gesture was emitted less than GESTURE_COOLDOWN_S
\* ago.
C16_Cooldown ==
    det.on =>
        /\ det.emitted # NoGesture
              => det.age0[det.emitted] \in {-1, GESTURE_COOLDOWN_S}
        /\ \A g \in det.skipped :
              det.age0[g] >= 0 /\ det.age0[g] < GESTURE_COOLDOWN_S

\* A second TOGGLE_PLAYBACK, 0.6 s or more after the first, on a frame on
\* which the palm swipe was skipped for its own cooldown.
C16_Witness ==
    /\ det.on
    /\ det.emitted = GESTURE_TOGGLE_PLAYBACK
    /\ det.age0[GESTURE_TOGGLE_PLAYBACK] = GESTURE_COOLDOWN_S
    /\ GESTURE_SCROLL_BACKWARD \in det.skipped

\* C17: after a frame without a hand the buffer is empty and nothing is
\* emitted, and an event is emitted only when at least
\* MIN_FRAMES_FOR_DETECTION hand frames were pushed since the last frame
\* without a hand.
C17_HandlessClears ==
    det.on =>
        /\ det.handless => det.buffer = <<>> /\ det.emitted = NoGesture
        /\ det.emitted # NoGesture => det.pushed >= MIN_FRAMES_FOR_DETECTION

\* An event on the eighth hand frame after a frame without a hand.
C17_Witness ==
    /\ det.on
    /\ det.emitted # NoGesture
    /\ Len(det.buffer) = MIN_FRAMES_FOR_DETECTION
    /\ det.n > Len(det.buffer)

\* C18: TOGGLE_PLAYBACK is emitted only on a frame with thumb and index
\* closer than PINCH_DISTANCE_THRESHOLD while the latch is set, and emitting
\* clears the latch; the latch becomes set only on a frame whose pinch window
\* has a distance of PINCH_OPEN_THRESHOLD or more; a detector that has seen
\* no such distance has the latch clear and emits no TOGGLE_PLAYBACK.
C18_PinchLatch ==
    /\ [](det.on /\ ~det.seenOpen
            => det.emitted # GESTURE_TOGGLE_PLAYBACK /\ ~det.pinch_was_open)
    /\ [][LET window == recent(det'.buffer, PINCH_FRAME_WINDOW)
              open   == \E i \in 1..Len(window) :
                            window[i].dist >= PINCH_OPEN_THRESHOLD
          IN  /\ det'.emitted = GESTURE_TOGGLE_PLAYBACK
                    => /\ window[Len(window)].dist < PINCH_DISTANCE_THRESHOLD
                       /\ det.pinch_was_open \/ open
                       /\ ~det'.pinch_was_open
              /\ ~det.pinch_was_open /\ det'.pinch_was_open
                    => Len(window) = PINCH_FRAME_WINDOW /\ open]_vars

\* Twelve frames with thumb and index together (0.03), none apart before.
C18_Witness ==
    /\ det.on
    /\ ~det.seenOpen
    /\ Len(det.buffer) >= 12
    /\ \A i \in 1..Len(det.buffer) : det.buffer[i].dist = 30
    /\ det.emitted = NoGesture

\* C19: after a TOGGLE_PLAYBACK, while every following frame has thumb and
\* index closer than PINCH_DISTANCE_THRESHOLD, no second TOGGLE_PLAYBACK is
\* emitted.
C19_OnePinchOneToggle ==
    det.on => ~(det.emitted = GESTURE_TOGGLE_PLAYBACK /\ det.held0)

\* C20: SWITCH_STAFF is emitted only when the last
\* PEACE_SIGN_MIN_HOLD_FRAMES frames of the buffer, the present one among
\* them, show the peace sign, and not again before a hand frame without the
\* peace sign was processed.
C20_PeaceOnce ==
    det.on /\ det.emitted = GESTURE_SWITCH_STAFF
        => /\ det.hold0 # "held"
           /\ Len(det.buffer) >= PEACE_SIGN_MIN_HOLD_FRAMES
           /\ \A i \in (Len(det.buffer) - PEACE_SIGN_MIN_HOLD_FRAMES + 1)..Len(det.buffer) :
                 det.buffer[i].fingers = {"index", "middle"}

\* A second SWITCH_STAFF, after the peace sign was dropped and shown again.
C20_Witness ==
    /\ det.on
    /\ det.emitted = GESTURE_SWITCH_STAFF
    /\ det.hold0 = "released"

\* C21: detect emits at most one event per frame, and on a frame on which a
\* detector matched, also one whose gesture is on cooldown, no gesture of a
\* detector after it in the order is emitted.
C21_FirstMatchWins ==
    det.on =>
        /\ det.emitted \in ALL_GESTURES \cup {NoGesture}
        /\ det.emitted # NoGesture => det.skipped = {}

\* C22: every POST /speech handler that waits for the model is answered.
C22_SpeechAnswered ==
    \A h \in Handlers : (req[h].pc = "llm") ~> (req[h].pc # "llm")

\* C24: a command of the app editor that changes the notes emits
\* sequence_changed, one that changes the cursor emits cursor_changed with the
\* new index, and one whose precondition fails and that changes nothing emits
\* no sequence_changed.
C24_SignalsFollowChanges ==
    LET notes   == ed.appPrev.notes
        cur     == ed.appPrev.cursor
        signals == Range(app_signals(ed.command, notes, cur))
        holds   ==
            CASE ed.command \in {"move_left", "move_right", "delete_note"} -> Len(notes) > 0
              [] ed.command = "add_note" -> TRUE
              [] ed.command = "split_note" ->
                    has_current_note(notes, cur) /\ notes[cur + 1].duration > 2
              [] ed.command = "merge_note" ->
                    /\ cur + 2 <= Len(notes)
                    /\ notes[cur + 1].instrument = notes[cur + 2].instrument
                    /\ notes[cur + 1].beat + notes[cur + 1].duration = notes[cur + 2].beat
              [] OTHER -> has_current_note(notes, cur)
    IN  (ed.on /\ ed.n > 0 /\ ed.command \in AppEditorCommands)
            => /\ ed.app.notes # notes => sequence_changed \in signals
               /\ ed.app.cursor # cur => cursor_changed(ed.app.cursor) \in signals
               /\ ~holds /\ ed.app = ed.appPrev => sequence_changed \notin signals

\* delete_note on the last of several notes: the notes and the cursor change.
C24_Witness ==
    /\ ed.on
    /\ ed.n > 0
    /\ ed.command = "delete_note"
    /\ Len(ed.app.notes) < Len(ed.appPrev.notes)
    /\ ed.app.cursor # ed.appPrev.cursor

\* C23: after every event the window handles, both edit cursors and the
\* playback cursor are indices of the note list, or 0 when it is empty.
C23_CursorsInRange ==
    mw.on =>
        LET top == Max(0, Len(mw.win.notes) - 1)
        IN  /\ mw.win.edit_cursors[1] \in 0..top
            /\ mw.win.edit_cursors[2] \in 0..top
            /\ mw.win.playback \in 0..top

\* A delete_note that leaves the playback cursor and the active edit cursor,
\* both on the last note, beyond the end: both are pulled back.
C23_Witness ==
    /\ mw.on
    /\ mw.event \in {"Backspace", "delete_note"}
    /\ Len(mw.win.notes) > 0
    /\ Len(mw.win.notes) < Len(mw.before.notes)
    /\ mw.before.playback = Len(mw.win.notes)
    /\ mw.before.edit_cursors[mw.before.slot + 1] = Len(mw.win.notes)
    /\ mw.win.playback = Len(mw.win.notes) - 1
    /\ mw.win.edit_cursors[mw.win.slot + 1] = Len(mw.win.notes) - 1

\* C25: with an open palm and a full window the palm swipe matches exactly
\* when the palm centre moved by |dx| >= 0.10 with dy = 0 or |dx|/|dy| >= 1.8
\* over the window; it is SCROLL_FORWARD for dx < 0 and SCROLL_BACKWARD
\* otherwise, with confidence min(1, |dx|/0.20) >= 0.5; while the swipe
\* lasts it is emitted once and not again within GESTURE_COOLDOWN_S.
C25_PalmSwipe ==
    (det.on /\ det.buffer # <<>>) =>
        LET n        == Len(det.buffer)
            last     == det.buffer[n]
            full     == n >= PALM_SWIPE_FRAME_WINDOW
            first    == det.buffer[Max(1, n - PALM_SWIPE_FRAME_WINDOW + 1)]
            dx       == last.x - first.x
            dy       == last.y - first.y
            matches  == /\ open_palm(last.fingers)
                        /\ full
                        /\ Abs(dx) >= 10
                        /\ (dy = 0 \/ 10 * Abs(dx) >= 18 * Abs(dy))
            found    == detect_palm_swipe(det.buffer, last.fingers)
            expected == IF dx < 0 THEN GESTURE_SCROLL_FORWARD
                        ELSE GESTURE_SCROLL_BACKWARD
            quiet    == /\ det.age0[expected] # -1
                        /\ det.age0[expected] < GESTURE_COOLDOWN_S
        IN  /\ (found # NoGesture) <=> matches
            /\ matches => /\ found = expected
                          /\ palm_swipe_confidence(det.buffer) = Min(100, 5 * Abs(dx))
                          /\ palm_swipe_confidence(det.buffer) >= 50
            /\ matches /\ ~quiet => det.emitted = expected
            /\ matches /\ quiet => det.emitted # expected
            /\ det.emitted \in {GESTURE_SCROLL_FORWARD, GESTURE_SCROLL_BACKWARD}
                  => matches /\ det.emitted = expected

\* The swipe still fills the window on the frame after the one that emitted
\* it: nothing is emitted for it.
C25_Witness ==
    /\ det.on
    /\ Len(det.buffer) > PALM_SWIPE_FRAME_WINDOW
    /\ detect_palm_swipe(det.buffer, det.buffer[Len(det.buffer)].fingers)
            = GESTURE_SCROLL_BACKWARD
    /\ det.age0[GESTURE_SCROLL_BACKWARD] \in 1..(GESTURE_COOLDOWN_S - 1)
    /\ det.emitted # GESTURE_SCROLL_BACKWARD

\* C26: the canonical notes are ordered by beat (the first key of the order
\* by beat, instrument and pitch).
C26_BeatOrdered ==
    \A i \in 1..(Len(objs[seqId]) - 1) :
        objs[seqId][i].beat <= objs[seqId][i + 1].beat

\* C27: in both editors delete_note on a non-empty list removes the note at
\* the cursor and no other, keeps the order of the rest and leaves the cursor
\* at min(cursor, len - 1) of the shorter list, 0 when that is empty; on an
\* empty list it changes nothing.
C27_DeleteNote ==
    LET Deleted(before, after) ==
            IF Len(before.notes) = 0 THEN after = before
            ELSE /\ Len(after.notes) = Len(before.notes) - 1
                 /\ \A i \in 1..Len(after.notes) :
                        after.notes[i] = IF i <= before.cursor
                                         THEN before.notes[i]
                                         ELSE before.notes[i + 1]
                 /\ after.cursor = IF Len(after.notes) = 0 THEN 0
                                   ELSE Min(before.cursor, Len(after.notes) - 1)
    IN  (ed.on /\ ed.n > 0 /\ ed.command = "delete_note")
            => /\ Deleted(ed.appPrev, ed.app)
               /\ Deleted(ed.srvPrev, ed.srv)

\* A note that is not the last one is deleted: the cursor stays and now
\* selects the note that followed.
C27_Witness ==
    /\ ed.on
    /\ ed.n > 0
    /\ ed.command = "delete_note"
    /\ ed.appPrev.cursor < Len(ed.appPrev.notes) - 1
    /\ ed.app.cursor = ed.appPrev.cursor
    /\ ed.app.notes[ed.app.cursor + 1] = ed.appPrev.notes[ed.appPrev.cursor + 2]
    /\ ed.srv = ed.app

\* C28: in both editors add_note inserts one quarter note C4 of instrument 0
\* right after the cursor (at index 0 of an empty list), at the beat where
\* the note at the cursor ends (0 in an empty list), moves the cursor to it
\* and leaves every other note as it was.
C28_AddNote ==
    LET Added(before, after) ==
            LET at == IF Len(before.notes) = 0 THEN 0 ELSE before.cursor + 1
                b  == IF Len(before.notes) = 0 THEN 0
                      ELSE before.notes[before.cursor + 1].beat
                            + before.notes[before.cursor + 1].duration
            IN  /\ Len(after.notes) = Len(before.notes) + 1
                /\ after.cursor = at
                /\ after.notes[at + 1] =
                      [pitch |-> "C4", duration |-> 8, beat |-> b,
                       note_type |-> "quarter", instrument |-> 0]
                /\ \A i \in 1..Len(before.notes) :
                      before.notes[i] = after.notes[IF i <= at THEN i ELSE i + 1]
    IN  (ed.on /\ ed.n > 0 /\ ed.command = "add_note")
            => /\ Added(ed.appPrev, ed.app)
               /\ Added(ed.srvPrev, ed.srv)

\* A note is added between two notes.
C28_Witness ==
    /\ ed.on
    /\ ed.n > 0
    /\ ed.command = "add_note"
    /\ ed.appPrev.cursor < Len(ed.appPrev.notes) - 1
    /\ ed.app.cursor = ed.appPrev.cursor + 1
    /\ ed.app.notes[ed.app.cursor + 1].beat > 0
    /\ Len(ed.app.notes) = Len(ed.appPrev.notes) + 1
    /\ ed.srv = ed.app

\* C29: a command whose precondition fails leaves the notes and the cursor
\* as they were: split_note on a duration of at most 0.25, merge_note without
\* a successor, with a successor of the other instrument or with one that
\* does not start where the current note ends, pitch_up on B5, pitch_down on
\* C4, and every command but add_note on an empty list.
C29_FailedPrecondition ==
    LET Fails(before) ==
            LET notes == before.notes
                cur   == before.cursor
            IN  IF Len(notes) = 0 THEN ed.command # "add_note"
                ELSE CASE ed.command = "split_note" -> notes[cur + 1].duration <= 2
                       [] ed.command = "merge_note" ->
                             \/ cur + 2 > Len(notes)
                             \/ notes[cur + 1].instrument # notes[cur + 2].instrument
                             \/ notes[cur + 1].beat + notes[cur + 1].duration
                                    # notes[cur + 2].beat
                       [] ed.command = "pitch_up" -> notes[cur + 1].pitch = "B5"
                       [] ed.command = "pitch_down" -> notes[cur + 1].pitch = "C4"
                       [] OTHER -> FALSE
    IN  (ed.on /\ ed.n > 0 /\ ed.command \in AppEditorCommands)
            => /\ Fails(ed.appPrev) => ed.app = ed.appPrev
               /\ Fails(ed.srvPrev) => ed.srv = ed.srvPrev

\* merge_note on two notes of one instrument with a gap between them.
C29_Witness ==
    /\ ed.on
    /\ ed.n > 0
    /\ ed.command = "merge_note"
    /\ ed.appPrev.cursor + 2 <= Len(ed.appPrev.notes)
    /\ ed.appPrev.notes[ed.appPrev.cursor + 1].instrument
            = ed.appPrev.notes[ed.appPrev.cursor + 2].instrument
    /\ ed.appPrev.notes[ed.appPrev.cursor + 1].beat
            + ed.appPrev.notes[ed.appPrev.cursor + 1].duration
            < ed.appPrev.notes[ed.appPrev.cursor + 2].beat
    /\ ed.app = ed.appPrev

\* C30: a step that installs a new canonical sequence (PUT /sequence, an
\* accepted /speech edit) leaves the editor's cursor, which GET /sequence
\* reports, at 0, and no step writes notes to a Sequence object other than
\* the canonical one: a gesture command after a replacement edits the
\* installed sequence, the replaced one is only dropped.
C30_ReplaceResetsEditor ==
    [][/\ seqId' # seqId => cursor' = 0
       /\ \A i \in ObjIds : i # seqId' => objs'[i] \in {objs[i], <<>>}]_vars

\* A gesture command has edited a sequence installed by PUT /sequence and
\* moved the cursor off 0.
C30_Witness ==
    /\ seqId > 0
    /\ nbcast > seqId
    /\ returned.kind = "gesture"
    /\ returned.command = "add_note"
    /\ cursor > 0
    /\ Len(objs[seqId]) > 1

\* C34: the cursor in the response of a successful POST /gestures is the
\* cursor in the command frame the same request broadcast.
C34_ResponseCursorIsFrameCursor ==
    (/\ returned.kind = "gesture"
     /\ returned.resp.status = "ok"
     /\ returned.command # "toggle_playback")
        => returned.resp.cursor = returned.frame.cursor

\* C37: a peace sign shown on PEACE_SIGN_MIN_HOLD_FRAMES or more frames in a
\* row, for longer than GESTURE_COOLDOWN_S, with enough frames buffered and
\* no pinch or palm swipe possible, has had its SWITCH_STAFF emitted.
C37_PeaceHoldReported ==
    (/\ det.on
     /\ ~det.seenOpen
     /\ det.pushed >= MIN_FRAMES_FOR_DETECTION
     /\ det.run >= PEACE_SIGN_MIN_HOLD_FRAMES
     /\ (det.run - 1) * det.gap > GESTURE_COOLDOWN_S)
        => det.reported

\* C40: TOGGLE_PLAYBACK is emitted only when a frame pushed since the hand
\* came into view (the buffer holds them all) had thumb and index
\* PINCH_OPEN_THRESHOLD or more apart.
C40_PinchNeedsOpenSinceReappearance ==
    (det.on /\ det.emitted = GESTURE_TOGGLE_PLAYBACK)
        => \E i \in 1..Len(det.buffer) : det.buffer[i].dist >= PINCH_OPEN_THRESHOLD

\* C32: whatever shutdown triggers arrive, the release calls are made once,
\* playback stopped first, then the client thread, then the audio backend;
\* before the first trigger nothing is released.
C32_ReleasedOnce ==
    life.on =>
        LET core == SelectSeq(life.released,
                              LAMBDA r : r # "stt_worker.stop_recording")
        IN  IF life.shutdown_complete
            THEN core = <<"audio.stop", "server_client.stop", "audio.cleanup">>
            ELSE life.released = <<>> /\ life.n = 0

\* The thread's finished signal arrives as the third trigger.
C32_Witness ==
    /\ life.on
    /\ life.n = 3
    /\ life.trigger = "server_client.finished"
    /\ Len(life.released) >= 3

\* C33: while stop() has not been called, a connection that is lost while
\* the client listens makes the client emit disconnected and wait before it
\* connects again.
C33_LossThenBackoff ==
    [][(life.on /\ life.pc = "listening" /\ life'.pc # "listening" /\ life'.running)
          => /\ life'.pc = "backoff"
             /\ life'.log[Len(life'.log)] = "disconnected"]_vars

\* C38: the server executes the commands of the gesture events in the order
\* in which the capture loop emitted the events.
C38_DetectionOrder ==
    post.on =>
        \A a, b \in 1..Len(post.executed) :
            a < b => post.executed[a] < post.executed[b]

\* C31: after consecutive key cycles with no other edit between them, every
\* note that is not a rest has the pitch index it had before the first
\* cycle, shifted by the semitones from the first key's tonic to the present
\* key's tonic and clamped to PITCH_ORDER.
C31_KeyCyclesFromBase ==
    link.on =>
        \A a \in Apps :
            LET p == link.app[a]
                shift == (tonic_index(p.key) - tonic_index(p.key0)) % 12
            IN  p.cycles > 0 =>
                    \A i \in 1..Len(p.w.notes) :
                        ~is_rest(p.w.notes[i]) =>
                            pitch_index(p.w.notes[i])
                                = Max(0, Min(Len(PITCH_ORDER) - 1, p.b0[i] + shift))

\* C35: when no request waits for the server and no frame for an app, every
\* connected app has the server's notes.
C35_ReplicasConverge ==
    (/\ link.on
     /\ \A a \in Apps : link.put[a] = <<>> /\ link.queue[a] = <<>>)
        => \A a \in Apps : link.conn[a] => link.app[a].w.notes = link.sv.notes

\* C36: an app that handles the sequence_update of its own edit while its
\* editor cursor and active edit cursor are at the edit's position k has them
\* at k afterwards.
C36_EditKeepsCursor ==
    [][\A a \in Apps :
          (/\ link.on
           /\ link'.event.kind = "frame"
           /\ link'.event.app = a
           /\ link'.event.frame.type = "sequence_update"
           /\ link'.event.frame.by = a
           /\ ~link'.event.frame.cycle
           /\ link.app[a].w.cursor = link'.event.frame.k
           /\ link.app[a].w.edit_cursors[link.app[a].w.slot + 1] = link'.event.frame.k)
              => LET w == link'.app[a].w
                 IN  /\ w.cursor = link'.event.frame.k
                     /\ w.edit_cursors[w.slot + 1] = link'.event.frame.k]_vars

====
